---- MODULE Spec2Model ----
(***************************************************************************)
(* web2vault: the token-budget chunker (chunker.py) and the map-reduce     *)
(* generation orchestrator (generators/base.py).                           *)
(*                                                                         *)
(* A text is a sequence of one-character strings.                          *)
(***************************************************************************)
EXTENDS Integers, Sequences, FiniteSets, TLC

VARIABLES
    markdown,       \* split_by_headings: the text argument
    max_tokens,     \* split_by_headings: the budget argument
    split_state,    \* "input" while the arguments are chosen, "returned" after the call
    split_result    \* split_by_headings: the returned list of chunks

VARIABLES
    content,            \* scraped.markdown, the document
    max_input_tokens,   \* self._llm.max_input_tokens
    replies,            \* the texts the generation service may answer with
    pc,                 \* where NoteGenerator.generate stands
    chunks,             \* _generate_from_chunks: chunks
    partial_results,    \* _generate_from_chunks / _reduce_results: partial_results
    merged,             \* _reduce_results: merged, the list the current round builds
    ri,                 \* _reduce_results: i, the position of the for loop in the round
    body,               \* generate: body, as returned by the path taken
    calls,              \* every generation call made so far, in order
    rounds,             \* the lists of results the while loop of _reduce_results went through
    path                \* the branch generate took: "direct" or "chunked"

VARIABLES
    fit_content,        \* _fit_content_to_context: the content argument
    other_parts,        \* _fit_content_to_context: *other_parts
    fit_max_input,      \* _fit_content_to_context: self._llm.max_input_tokens
    fit_state,          \* "input" before the call, "returned" after it
    fit_result          \* _fit_content_to_context: the returned text

VARIABLES
    style,              \* the note_type of the generator: which _generate_body runs
    stage,              \* _generate_body of a chained style: the call it makes next
    plan,               \* deep_dive: outline; qa: topic_plan; practice: plan
    items,              \* deep_dive: sections; qa, practice: topics
    fitted_content,     \* _generate_body: fitted_content
    expanded_sections,  \* deep_dive: expanded_sections; qa, practice: all_sections
    question_number,    \* practice: question_number
    error,              \* the exception generate was left by, "none" if none
    passes              \* the passes of _generate_body that have returned, in order,
                        \* each with the number of calls made when it returned

VARIABLES
    urls,               \* main: urls, each given as what scraping it yields
    url_pos,            \* main: how many of the urls the for loop has taken
    scraped,            \* main: scraped.markdown of the url at hand
    had_errors,         \* main: had_errors
    total_failure,      \* main: total_failure
    bundle_notes,       \* run_all_generators: the note types of bundle.notes
    bundle_errors,      \* run_all_generators: bundle.errors
    run_calls,          \* the calls of run_all_generators so far and how each ended
    main_pc,            \* where main stands: "scrape", "generate", "exited"
    exit_status         \* the exit status of the process, NoStatus while it runs

VARIABLES
    raw_text,           \* _clean_output: the text argument
    expected_title,     \* _clean_output: the title argument
    note_type,          \* _clean_output: self.note_type
    clean_state,        \* "input" before the call, "returned" after it
    cleaned             \* _clean_output: the returned text

VARIABLES
    name,               \* generate: name, the title handed to _clean_output
    note                \* generate: the content of the GeneratedNote returned

VARIABLES
    merge_input,        \* _merge_sections: the sections argument
    section_budget,     \* _merge_sections: the max_tokens argument
    merge_state,        \* "input" before the call, "returned" after it
    merge_result        \* _merge_sections: the returned list of chunks

VARIABLES
    plan_text,          \* _parse_topics: plan; _parse_outline_sections: outline
    parser,             \* the style whose parser is called
    parse_state,        \* "input" before the call, "returned" after it
    parse_result        \* the list the parser returned

VARIABLES
    provider,           \* the provider whose generate is called
    use_max_completion_tokens,  \* OpenAIProvider: self._use_max_completion_tokens
    attempt,            \* generate: attempt, the turn of the for loop
    requests,           \* the requests sent to the service so far, each with
                        \* the token parameter it carried and how it ended
    provider_pc         \* where generate stands: "request", "alt_request",
                        \* "returned", "raised"

chunkVars == <<markdown, max_tokens, split_state, split_result>>

cleanVars == <<raw_text, expected_title, note_type, clean_state, cleaned>>

noteVars == <<name, note>>

mergeVars == <<merge_input, section_budget, merge_state, merge_result>>

parseVars == <<plan_text, parser, parse_state, parse_result>>

providerVars == <<provider, use_max_completion_tokens, attempt, requests, provider_pc>>

runVars == <<urls, url_pos, scraped, had_errors, total_failure, bundle_notes,
             bundle_errors, run_calls, main_pc, exit_status>>

chainVars == <<style, stage, plan, items, fitted_content, expanded_sections,
               question_number, error, passes>>

fitVars == <<fit_content, other_parts, fit_max_input, fit_state, fit_result>>

genVars == <<content, max_input_tokens, replies, pc, chunks, partial_results,
             merged, ri, body, calls, rounds, path>>

\* what a step of the generator, and a step of the chunker's caller, leave alone
outsideGenerate == <<chunkVars, fitVars, chainVars, runVars, cleanVars, noteVars, mergeVars,
                    parseVars, providerVars>>
outsideSplit == <<genVars, fitVars, chainVars, runVars, cleanVars, noteVars, mergeVars,
                    parseVars, providerVars>>
outsideFit == <<chunkVars, genVars, chainVars, runVars, cleanVars, noteVars, mergeVars,
                    parseVars, providerVars>>
outsideChain == <<chunkVars, fitVars, runVars, cleanVars, noteVars, mergeVars,
                    parseVars, providerVars>>
outsideRun == <<chunkVars, genVars, fitVars, chainVars, cleanVars, noteVars, mergeVars,
                    parseVars, providerVars>>
outsideClean == <<chunkVars, genVars, fitVars, chainVars, runVars, noteVars,
                  mergeVars, parseVars, providerVars>>
outsideMerge == <<chunkVars, genVars, fitVars, chainVars, runVars, cleanVars,
                  noteVars, parseVars, providerVars>>
outsideParse == <<chunkVars, genVars, fitVars, chainVars, runVars, cleanVars,
                  noteVars, mergeVars, providerVars>>
outsideProvider == <<chunkVars, genVars, fitVars, chainVars, runVars, cleanVars,
                     noteVars, mergeVars, parseVars>>

vars == <<chunkVars, genVars, fitVars, chainVars, runVars, cleanVars, noteVars, mergeVars,
                    parseVars, providerVars>>

-----------------------------------------------------------------------------
(* Characters and texts *)

NL == "\n"
SP == " "
HASH == "#"

\* str.strip() removes these from both ends; the model's alphabet holds two of them
Whitespace == {NL, SP}

H2Marker == <<HASH, HASH, SP>>
H1Marker == <<HASH, SP>>

\* the pieces a text argument is put together from
Pieces == { H2Marker, H1Marker, <<"a">>, <<NL>> }

\* bounds of the chunker's inputs: the length of the text and the budget
MaxLen == 10
MaxTokens == 1

-----------------------------------------------------------------------------
(* utils.py *)

\* len(text) // 3: another ratio of characters to tokens
estimate_tokens_by3(text) == Len(text) \div 3

\* len(text) // 4
estimate_tokens(text) == Len(text) \div 4

-----------------------------------------------------------------------------
(* chunker.py *)

\* not s
IsBlankEmptyOnly(s) == s = <<>>

\* not s.strip()
IsBlank(s) == \A i \in 1..Len(s) : s[i] \in Whitespace

\* the separators <<first, pastLast>> of a set, in the order of their positions
SortedSeps(seps) ==
    LET before == [p \in seps |-> Cardinality({q \in seps : q[1] < p[1]})]
    IN  [k \in 1..Cardinality(seps) |-> CHOOSE p \in seps : before[p] = k - 1]

\* re.split: the parts of s between the separators, separators removed; an
\* empty match is a separator <<i, i>> and a match at the start gives a leading ""
SplitOn(s, seps) ==
    LET n == Cardinality(seps)
        sorted == SortedSeps(seps)
    IN  [k \in 1..(n + 1) |->
            SubSeq(s,
                   IF k = 1 THEN 1 ELSE sorted[k - 1][2],
                   IF k = n + 1 THEN Len(s) ELSE sorted[k][1] - 1)]

\* the matches of (?=^marker) under re.MULTILINE: empty, at a line start
\* that the marker follows
HeadingMatches(s, marker) ==
    { <<i, i>> : i \in { j \in 1..Len(s) :
                            /\ (j = 1 \/ s[j - 1] = NL)
                            /\ j + Len(marker) - 1 <= Len(s)
                            /\ SubSeq(s, j, j + Len(marker) - 1) = marker } }

\* the end (past the last newline) of the run of newlines that starts at i
RECURSIVE NewlineRunEnd(_, _)
NewlineRunEnd(s, i) ==
    IF i <= Len(s) /\ s[i] = NL THEN NewlineRunEnd(s, i + 1) ELSE i

\* the matches of \n\n+ : the maximal runs of two or more newlines
ParagraphMatches(s) ==
    { <<i, NewlineRunEnd(s, i)>> : i \in { j \in 1..Len(s) :
                            /\ s[j] = NL
                            /\ (j = 1 \/ s[j - 1] # NL)
                            /\ j + 1 <= Len(s)
                            /\ s[j + 1] = NL } }

\* line 55, off by one: a chunk may pass the budget by a token
FitsBudgetLoose(combined, budget) == estimate_tokens(combined) <= budget + 1

\* line 55: estimate_tokens(combined) <= max_tokens
FitsBudget(combined, budget) == estimate_tokens(combined) <= budget

\* lines 54-56 lost: every section that is not blank closes the chunk
\* before it
MergeStepEager(st, section, budget) ==
    IF IsBlank(section)
    THEN st
    ELSE [closed |-> IF ~IsBlank(st.current) THEN Append(st.closed, st.current)
                                             ELSE st.closed,
          current |-> section]

\* one turn of the loop of _merge_sections (lines 52-60), on the chunks
\* closed so far and the chunk being filled
MergeStep(st, section, budget) ==
    LET combined == st.current \o section
    IN  IF IsBlank(section)
        THEN st
        ELSE IF FitsBudget(combined, budget)
        THEN [closed |-> st.closed, current |-> combined]
        ELSE [closed |-> IF ~IsBlank(st.current) THEN Append(st.closed, st.current)
                                                 ELSE st.closed,
              current |-> section]

\* the turns of the loop for sections lo..hi, in order. The range is halved
\* to keep the evaluation shallow: the turns are those of the for loop, and
\* the first test reads st (its second half never holds) so that the turns
\* before lo are evaluated before those from lo on are entered.
RECURSIVE MergeLoop(_, _, _, _, _)
MergeLoop(st, sections, budget, lo, hi) ==
    IF lo > hi \/ Len(st.closed) < 0 THEN st
    ELSE IF lo = hi THEN MergeStep(st, sections[lo], budget)
    ELSE LET mid == (lo + hi) \div 2
         IN  MergeLoop(MergeLoop(st, sections, budget, lo, mid),
                       sections, budget, mid + 1, hi)

\* _merge_sections (its last branch, `if not chunks`, returns [] there: the
\* chunk being filled is blank whenever no chunk was closed)
_merge_sections(sections, budget) ==
    LET st == MergeLoop([closed |-> <<>>, current |-> <<>>],
                        sections, budget, 1, Len(sections))
    IN  IF ~IsBlank(st.current) THEN Append(st.closed, st.current) ELSE st.closed

_split_by_paragraphs(text, budget) ==
    _merge_sections(SplitOn(text, ParagraphMatches(text)), budget)

\* the concatenation of a list of lists
RECURSIVE Flatten(_)
Flatten(ll) == IF ll = <<>> THEN <<>> ELSE Head(ll) \o Flatten(Tail(ll))

\* "Some chunks still too large; split those at # headings"
RefineH1(list, budget) ==
    Flatten([k \in 1..Len(list) |->
        IF estimate_tokens(list[k]) > budget
        THEN _merge_sections(SplitOn(list[k], HeadingMatches(list[k], H1Marker)), budget)
        ELSE <<list[k]>>])

\* line 39 lost: every chunk is split by paragraphs
RefineParagraphsAll(refined, budget) ==
    Flatten([k \in 1..Len(refined) |-> _split_by_paragraphs(refined[k], budget)])

\* "Last resort: split by paragraphs"
RefineParagraphs(refined, budget) ==
    Flatten([k \in 1..Len(refined) |->
        IF estimate_tokens(refined[k]) > budget
        THEN _split_by_paragraphs(refined[k], budget)
        ELSE <<refined[k]>>])

\* line 17 with < for <= : a text exactly at the budget is split
WholeTextFitsStrict(text, budget) == estimate_tokens(text) < budget

\* line 17: estimate_tokens(markdown) <= max_tokens
WholeTextFits(text, budget) == estimate_tokens(text) <= budget

split_by_headings(text, budget) ==
    IF WholeTextFits(text, budget)
    THEN <<text>>
    ELSE LET bySection == _merge_sections(SplitOn(text, HeadingMatches(text, H2Marker)), budget)
         IN  IF \A k \in 1..Len(bySection) : estimate_tokens(bySection[k]) <= budget
             THEN bySection
             ELSE RefineParagraphs(RefineH1(bySection, budget), budget)

-----------------------------------------------------------------------------
(* The chunker called on its own: any text, any budget *)

\* generate is not running
GenIdle ==
    /\ content = <<>>
    /\ max_input_tokens = 0
    /\ replies = {}
    /\ pc = "idle"
    /\ chunks = <<>>
    /\ partial_results = <<>>
    /\ merged = <<>>
    /\ ri = 0
    /\ body = <<>>
    /\ calls = <<>>
    /\ rounds = <<>>
    /\ path = "none"

\* _fit_content_to_context is not being called
FitIdle ==
    /\ fit_content = <<>>
    /\ other_parts = <<>>
    /\ fit_max_input = 0
    /\ fit_state = "idle"
    /\ fit_result = <<>>

\* no chained style is at work
ChainIdle ==
    /\ style = "none"
    /\ stage = "plan"
    /\ plan = <<>>
    /\ items = <<>>
    /\ fitted_content = <<>>
    /\ expanded_sections = <<>>
    /\ question_number = 1
    /\ error = "none"
    /\ passes = <<>>

\* the process has no exit status yet
NoStatus == -1

\* main is not running
RunIdle ==
    /\ urls = <<>>
    /\ url_pos = 0
    /\ scraped = <<>>
    /\ had_errors = FALSE
    /\ total_failure = TRUE
    /\ bundle_notes = <<>>
    /\ bundle_errors = <<>>
    /\ run_calls = <<>>
    /\ main_pc = "idle"
    /\ exit_status = NoStatus

\* _clean_output is not running
CleanIdle ==
    /\ raw_text = <<>>
    /\ expected_title = <<>>
    /\ note_type = <<>>
    /\ clean_state = "idle"
    /\ cleaned = <<>>

\* generate has returned no note
NoteIdle ==
    /\ name = <<>>
    /\ note = <<>>

\* no parser is being called on its own
ParseIdle ==
    /\ plan_text = <<>>
    /\ parser = "none"
    /\ parse_state = "idle"
    /\ parse_result = <<>>

\* no provider is at work
ProviderIdle ==
    /\ provider = "none"
    /\ use_max_completion_tokens = FALSE
    /\ attempt = 0
    /\ requests = <<>>
    /\ provider_pc = "idle"

\* _merge_sections is not being called on its own
MergeIdle ==
    /\ merge_input = <<>>
    /\ section_budget = 0
    /\ merge_state = "idle"
    /\ merge_result = <<>>

InitChunk ==
    /\ FitIdle
    /\ ChainIdle
    /\ RunIdle
    /\ CleanIdle
    /\ NoteIdle
    /\ MergeIdle
    /\ ParseIdle
    /\ ProviderIdle
    /\ markdown = <<>>
    /\ max_tokens = 0
    /\ split_state = "input"
    /\ split_result = <<>>
    /\ GenIdle

\* the caller extends the text argument
ExtendText ==
    /\ split_state = "input"
    /\ \E p \in Pieces :
          /\ Len(markdown) + Len(p) <= MaxLen
          /\ markdown' = markdown \o p
    /\ UNCHANGED <<max_tokens, split_state, split_result>>
    /\ UNCHANGED outsideSplit

\* split_by_headings(markdown, b)
CallSplit ==
    /\ split_state = "input"
    /\ \E b \in 0..MaxTokens :
          /\ max_tokens' = b
          /\ split_result' = split_by_headings(markdown, b)
    /\ split_state' = "returned"
    /\ UNCHANGED markdown
    /\ UNCHANGED outsideSplit

NextChunk == ExtendText \/ CallSplit

SpecChunk == InitChunk /\ [][NextChunk]_vars

-----------------------------------------------------------------------------
(* Properties of the chunker *)

Returned == split_state = "returned"

\* the first position from i on that holds no whitespace (Len(s) + 1 if none)
RECURSIVE SkipWhitespace(_, _)
SkipWhitespace(s, i) ==
    IF i <= Len(s) /\ s[i] \in Whitespace THEN SkipWhitespace(s, i + 1) ELSE i

\* the last position up to i that holds no whitespace (0 if none)
RECURSIVE SkipWhitespaceBack(_, _)
SkipWhitespaceBack(s, i) ==
    IF i >= 1 /\ s[i] \in Whitespace THEN SkipWhitespaceBack(s, i - 1) ELSE i

\* s.strip()
Strip(s) == SubSeq(s, SkipWhitespace(s, 1), SkipWhitespaceBack(s, Len(s)))

\* text, from position i on, is chunks k.. in order, each read without the
\* whitespace at its two ends, with nothing but whitespace between them,
\* before the first and after the last
RECURSIVE ReadsAs(_, _, _, _)
ReadsAs(text, i, list, k) ==
    LET j == SkipWhitespace(text, i)
    IN  IF k > Len(list)
        THEN j = Len(text) + 1
        ELSE LET c == Strip(list[k])
             IN  /\ j + Len(c) - 1 <= Len(text)
                 /\ SubSeq(text, j, j + Len(c) - 1) = c
                 /\ ReadsAs(text, j + Len(c), list, k + 1)

\* the characters of s that are not whitespace, in order
NonWhitespace(s) == SelectSeq(s, LAMBDA ch : ch \notin Whitespace)

\* s holds a blank-line boundary
HasBlankLine(s) == \E i \in 1..(Len(s) - 1) : s[i] = NL /\ s[i + 1] = NL

\* c is a contiguous slice of text
IsSliceOf(c, text) ==
    \E i \in 1..(Len(text) - Len(c) + 1) : SubSeq(text, i, i + Len(c) - 1) = c

\* C1: Lossless chunking: the chunks split_by_headings returns, concatenated
\* in their order, are the input text again, up to the whitespace at the
\* chunk boundaries.
C1_Lossless ==
    Returned => ReadsAs(markdown, 1, split_result, 1)

C3_Passthrough ==
    (Returned /\ estimate_tokens(markdown) <= max_tokens) =>
        split_result = <<markdown>>

\* a text within the budget that the heading split would have changed
C3_Witness ==
    /\ Returned
    /\ estimate_tokens(markdown) = max_tokens
    /\ HeadingMatches(markdown, H2Marker) # {}
    /\ IsBlank(SplitOn(markdown, HeadingMatches(markdown, H2Marker))[1])
    /\ Len(markdown) > 3
    /\ split_result = <<markdown>>

-----------------------------------------------------------------------------
(* chunker.py: the entry points the generators use *)

\* "Reserve tokens for system prompt + output"
Reserve == 10000

\* max_input_tokens - 10_000
Available(max_in) == max_in - Reserve

\* line 78 with >= for >
needs_chunking_at(text, max_in) == estimate_tokens(text) >= Available(max_in)

\* lines 74-78
needs_chunking(text, max_in) == estimate_tokens(text) > Available(max_in)

chunk_content(text, max_in) ==
    IF estimate_tokens(text) <= Available(max_in)
    THEN <<text>>
    ELSE split_by_headings(text, Available(max_in))

-----------------------------------------------------------------------------
(* generators/base.py: NoteGenerator.generate, _generate_from_chunks and     *)
(* _reduce_results. A generation call is one step: the service answers with *)
(* any of its replies.                                                      *)

\* "\n\n---\n\n"
Separator == <<NL, NL, "-", "-", "-", NL, NL>>

\* sep.join(list)
RECURSIVE Join(_, _)
Join(list, sep) ==
    IF Len(list) = 0 THEN <<>>
    ELSE IF Len(list) = 1 THEN list[1]
    ELSE list[1] \o sep \o Join(Tail(list), sep)

\* the blocks a document is put together from: a first-level section, a
\* second-level section, a paragraph, and blank lines
Blocks == { <<HASH, SP, "a", "a", "a", "a", "a", "a", "a", NL>>,
            <<HASH, HASH, SP, "a", NL>>,
            <<"a", "a", NL, NL>>,
            <<NL, NL, NL, NL>> }

\* bounds of the generator's inputs: the blocks of a document and the
\* input budget left past the reserve
MaxBlocks == 4
MaxAvailable == 4

RECURSIVE DocsUpTo(_)
DocsUpTo(n) ==
    IF n = 0 THEN {<<>>}
    ELSE LET shorter == DocsUpTo(n - 1)
         IN  shorter \cup {d \o b : d \in shorter, b \in Blocks}

\* what the generation service answers in the small model
SmallReplies == { <<"x">>, <<"y", "y">> }

\* one generation call: which function made it, the text it was handed
\* within its prompt, and the answer
Call(fn, arg, out) == [fn |-> fn, arg |-> arg, out |-> out]

GenStart ==
    /\ pc = "generate"
    /\ chunks = <<>>
    /\ partial_results = <<>>
    /\ merged = <<>>
    /\ ri = 0
    /\ body = <<>>
    /\ calls = <<>>
    /\ rounds = <<>>
    /\ path = "none"

ChunkIdle ==
    /\ markdown = <<>>
    /\ max_tokens = 0
    /\ split_state = "idle"
    /\ split_result = <<>>

Init ==
    /\ ChunkIdle
    /\ FitIdle
    /\ ChainIdle
    /\ RunIdle
    /\ CleanIdle
    /\ NoteIdle
    /\ MergeIdle
    /\ ParseIdle
    /\ ProviderIdle
    /\ content \in DocsUpTo(MaxBlocks)
    /\ max_input_tokens \in {Reserve + k : k \in 0..MaxAvailable}
    /\ replies = SmallReplies
    /\ GenStart

\* lines 86-88 taken for a document within the budget too
DecideAlwaysChunked ==
    /\ pc = "generate"
    /\ path' = "chunked"
    /\ chunks' = chunk_content(content, max_input_tokens)
    /\ pc' = "map"
    /\ UNCHANGED <<content, max_input_tokens, replies, partial_results, merged,
                   ri, body, calls, rounds>>
    /\ UNCHANGED outsideGenerate

\* generate, lines 83-88: the one decision between the two paths; on the
\* chunked path _generate_from_chunks computes the chunks (line 127)
Decide ==
    /\ pc = "generate"
    /\ IF needs_chunking(content, max_input_tokens)
       THEN /\ path' = "chunked"
            /\ chunks' = chunk_content(content, max_input_tokens)
            /\ pc' = "map"
       ELSE /\ path' = "direct"
            /\ chunks' = chunks
            /\ pc' = "direct"
    /\ UNCHANGED <<content, max_input_tokens, replies, partial_results, merged,
                   ri, body, calls, rounds>>
    /\ UNCHANGED outsideGenerate

\* generate, lines 89-91: _generate_body on the whole content
DirectBody ==
    /\ pc = "direct"
    /\ \E r \in replies :
          /\ calls' = Append(calls, Call("body", content, r))
          /\ body' = r
    /\ pc' = "returned"
    /\ UNCHANGED <<content, max_input_tokens, replies, chunks, partial_results,
                   merged, ri, rounds, path>>
    /\ UNCHANGED outsideGenerate

\* line 138 with insert(0, result) for append(result)
MapChunkPrepend ==
    /\ pc = "map"
    /\ Len(partial_results) < Len(chunks)
    /\ \E r \in replies :
          /\ calls' = Append(calls, Call("body", chunks[Len(partial_results) + 1], r))
          /\ partial_results' = <<r>> \o partial_results
    /\ UNCHANGED <<content, max_input_tokens, replies, pc, chunks, merged, ri,
                   body, rounds, path>>
    /\ UNCHANGED outsideGenerate

\* _generate_from_chunks, lines 132-138: one turn of the loop over the chunks
MapChunk ==
    /\ pc = "map"
    /\ Len(partial_results) < Len(chunks)
    /\ \E r \in replies :
          /\ calls' = Append(calls, Call("body", chunks[Len(partial_results) + 1], r))
          /\ partial_results' = Append(partial_results, r)
    /\ UNCHANGED <<content, max_input_tokens, replies, pc, chunks, merged, ri,
                   body, rounds, path>>
    /\ UNCHANGED outsideGenerate

\* line 155 with < for <= : results exactly at the budget are merged in pairs
CombinedFitsStrict(results, max_in) ==
    estimate_tokens(Join(results, Separator)) < Available(max_in)

\* line 155: estimate_tokens(combined) <= available
CombinedFits(results, max_in) ==
    estimate_tokens(Join(results, Separator)) <= Available(max_in)

\* line 140 lost: a lone result goes through the reduction too
SingleResultNever(results) == FALSE

\* line 140: len(partial_results) == 1
SingleResult(results) == Len(results) = 1

\* line 169 with 2 for 1: the loop stops with two results left
MoreToMergeTwo(results) == Len(results) > 2

\* line 169: len(partial_results) > 1
MoreToMerge(results) == Len(results) > 1

\* _generate_from_chunks, lines 140-143, and _reduce_results, lines 152-169:
\* the loop over the chunks is over
EndMap ==
    /\ pc = "map"
    /\ Len(partial_results) = Len(chunks)
    /\ IF SingleResult(partial_results)
       THEN /\ body' = partial_results[1]
            /\ pc' = "returned"
            /\ rounds' = rounds
       ELSE IF CombinedFits(partial_results, max_input_tokens)
       THEN /\ pc' = "merge_all"
            /\ UNCHANGED <<body, rounds>>
       ELSE IF MoreToMerge(partial_results)
       THEN /\ pc' = "round"
            /\ rounds' = <<partial_results>>
            /\ body' = body
       ELSE \* partial_results[0] of an empty list: IndexError
            /\ pc' = "raised"
            /\ UNCHANGED <<body, rounds>>
    /\ merged' = <<>>
    /\ ri' = 0
    /\ UNCHANGED <<content, max_input_tokens, replies, chunks, partial_results,
                   calls, path>>
    /\ UNCHANGED outsideGenerate

\* _reduce_results, lines 158-162: the one merge call over all the results
MergeAll ==
    /\ pc = "merge_all"
    /\ \E r \in replies :
          /\ calls' = Append(calls, Call("merge", Join(partial_results, Separator), r))
          /\ body' = r
    /\ pc' = "returned"
    /\ UNCHANGED <<content, max_input_tokens, replies, chunks, partial_results,
                   merged, ri, rounds, path>>
    /\ UNCHANGED outsideGenerate

\* _reduce_results, lines 172-184: the merge call of the pair at i, i + 1
\* (ri counts from 0, as i does)
PairMerge ==
    /\ pc = "round"
    /\ ri + 1 < Len(partial_results)
    /\ \E r \in replies :
          /\ calls' = Append(calls,
                Call("merge", partial_results[ri + 1] \o Separator \o partial_results[ri + 2], r))
          /\ merged' = Append(merged, r)
    /\ ri' = ri + 2
    /\ UNCHANGED <<content, max_input_tokens, replies, pc, chunks, partial_results,
                   body, rounds, path>>
    /\ UNCHANGED outsideGenerate

\* lines 185-186 lost: the result left without a partner is dropped
CarryForwardDropped ==
    /\ pc = "round"
    /\ ri < Len(partial_results)
    /\ ri + 1 = Len(partial_results)
    /\ merged' = merged
    /\ ri' = ri + 2
    /\ UNCHANGED <<content, max_input_tokens, replies, pc, chunks, partial_results,
                   body, calls, rounds, path>>
    /\ UNCHANGED outsideGenerate

\* _reduce_results, lines 185-186: the result left without a partner
CarryForward ==
    /\ pc = "round"
    /\ ri < Len(partial_results)
    /\ ri + 1 = Len(partial_results)
    /\ merged' = Append(merged, partial_results[ri + 1])
    /\ ri' = ri + 2
    /\ UNCHANGED <<content, max_input_tokens, replies, pc, chunks, partial_results,
                   body, calls, rounds, path>>
    /\ UNCHANGED outsideGenerate

\* _reduce_results, lines 187-189 and 169: the round is over; another one
\* starts while more than one result is left
EndRound ==
    /\ pc = "round"
    /\ ri >= Len(partial_results)
    /\ partial_results' = merged
    /\ rounds' = Append(rounds, merged)
    /\ merged' = <<>>
    /\ ri' = 0
    /\ IF MoreToMerge(merged)
       THEN /\ pc' = "round"
            /\ body' = body
       ELSE /\ pc' = "returned"
            /\ body' = merged[1]
    /\ UNCHANGED <<content, max_input_tokens, replies, chunks, calls, path>>
    /\ UNCHANGED outsideGenerate



Next ==
    \/ Decide
    \/ DirectBody
    \/ MapChunk
    \/ EndMap
    \/ MergeAll
    \/ PairMerge
    \/ CarryForward
    \/ EndRound

Spec == Init /\ [][Next]_vars

-----------------------------------------------------------------------------
(* Properties of the orchestrator *)

\* the generation calls of one kind, in the order they were made
CallsOf(fn) == SelectSeq(calls, LAMBDA c : c.fn = fn)

\* the answers of the first n calls
OutputsOf(n) == [k \in 1..n |-> calls[k].out]

\* the map phase is over
Mapped == path = "chunked" /\ (pc # "map" \/ Len(partial_results) = Len(chunks))

\* the list of partial results the map phase handed on (the rounds of the
\* reduction rebind partial_results)
MapResults == IF rounds # <<>> THEN rounds[1] ELSE partial_results

\* the reduction went by rounds of pairs
Hierarchical == rounds # <<>>

\* C4: Direct path: a document within the input budget gets one call of the
\* style's generation function, on the whole content; it is not chunked and
\* no merge call is made.
C4_DirectPath ==
    (pc # "generate" /\ estimate_tokens(content) <= max_input_tokens - Reserve) =>
        /\ path = "direct"
        /\ chunks = <<>> /\ partial_results = <<>> /\ rounds = <<>>
        /\ \A k \in 1..Len(calls) : calls[k].fn = "body" /\ calls[k].arg = content
        /\ Len(calls) <= 1
        /\ pc = "returned" => (Len(calls) = 1 /\ body = calls[1].out)

\* a document with headings, within the budget, has been generated directly
C4_Witness ==
    /\ pc = "returned"
    /\ path = "direct"
    /\ Cardinality(HeadingMatches(content, H2Marker)) >= 2
    /\ Cardinality(ParagraphMatches(content)) >= 1
    /\ estimate_tokens(content) = max_input_tokens - Reserve

\* C5: Map phase: a document over the input budget gets one call of the
\* style's generation function per chunk, in chunk order, each on its own
\* chunk alone; partial result i is the answer for chunk i, and the partial
\* results are as many as the chunks, in their order.
C5_MapPhase ==
    (pc # "generate" /\ estimate_tokens(content) > max_input_tokens - Reserve) =>
        /\ path = "chunked"
        /\ chunks = chunk_content(content, max_input_tokens)
        /\ Len(CallsOf("body")) <= Len(chunks)
        /\ \A k \in 1..Len(calls) :
              k <= Len(chunks) => calls[k] = Call("body", chunks[k], calls[k].out)
        /\ pc = "map" => partial_results = OutputsOf(Len(calls))
        /\ Mapped => /\ Len(CallsOf("body")) = Len(chunks)
                     /\ Len(MapResults) = Len(chunks)
                     /\ MapResults = OutputsOf(Len(chunks))

\* three chunks or more were mapped, to answers that differ
C5_Witness ==
    /\ pc = "returned"
    /\ path = "chunked"
    /\ Len(chunks) >= 3
    /\ chunks[1] # chunks[2]
    /\ calls[1].out # calls[2].out
    /\ calls[2].out # calls[3].out

\* C6: a lone chunk: its partial result is what _generate_from_chunks
\* returns, as it is, and no merge call is made.
C6_OneChunk ==
    (path = "chunked" /\ Len(chunks) = 1) =>
        /\ CallsOf("merge") = <<>>
        /\ rounds = <<>>
        /\ pc \in {"map", "returned"}
        /\ pc = "returned" => (Len(calls) = 1 /\ body = calls[1].out)

\* a document over the budget came out of the chunker as one chunk, and the
\* call on it has returned
C6_Witness ==
    /\ path = "chunked"
    /\ Len(chunks) = 1
    /\ pc = "returned"
    /\ chunks[1] # content

\* C7: Single-merge reduce: two or more partial results whose joined text is
\* within the input budget are merged by one merge call, on all of them
\* joined in their order by the separator, and its answer is returned.
C7_SingleMerge ==
    (Mapped /\ pc = "returned" /\ Len(chunks) >= 2
        /\ estimate_tokens(Join(OutputsOf(Len(chunks)), Separator))
              <= max_input_tokens - Reserve) =>
        /\ Len(CallsOf("merge")) = 1
        /\ Len(calls) = Len(chunks) + 1
        /\ calls[Len(calls)] =
              Call("merge", Join(OutputsOf(Len(chunks)), Separator), body)

\* three partial results that differ were merged by one call
C7_Witness ==
    /\ pc = "returned"
    /\ path = "chunked"
    /\ Len(chunks) >= 3
    /\ calls[1].out # calls[2].out
    /\ Len(CallsOf("merge")) = 1
    /\ rounds = <<>>

\* the text of the merge call for each pair of a list: positions 2k, 2k + 1
\* of the code, counted from 0
PairArgs(list) ==
    [k \in 1..(Len(list) \div 2) |-> list[2 * k - 1] \o Separator \o list[2 * k]]

\* the list a round makes of a list, given the answers of its merge calls
RoundResult(list, outs) ==
    [k \in 1..((Len(list) + 1) \div 2) |->
        IF 2 * k <= Len(list) THEN outs[k] ELSE list[2 * k - 1]]

\* the number of merge calls of the rounds before round r
RECURSIVE MergesBefore(_)
MergesBefore(r) ==
    IF r <= 1 THEN 0 ELSE MergesBefore(r - 1) + Len(rounds[r - 1]) \div 2

\* the merge calls are those of the rounds, round after round and pair after
\* pair; each round's list is made of the answers for the pairs of the list
\* before it, with the one left over carried in last place; the reduction
\* returns the one result left
PairwiseRounds ==
    LET M == CallsOf("merge")
        last == Len(rounds)
    IN  /\ \A r \in 1..(last - 1) :
              /\ MergesBefore(r + 1) <= Len(M)
              /\ \A k \in 1..(Len(rounds[r]) \div 2) :
                    M[MergesBefore(r) + k].arg = PairArgs(rounds[r])[k]
              /\ rounds[r + 1] =
                    RoundResult(rounds[r],
                        [k \in 1..(Len(rounds[r]) \div 2) |-> M[MergesBefore(r) + k].out])
        /\ Len(rounds[1]) >= 2
        /\ partial_results = rounds[last]
        /\ pc \in {"round", "returned"}
        /\ pc = "round" =>
              /\ Len(rounds[last]) >= 2
              /\ ri = 2 * Len(merged)
              /\ Len(M) = MergesBefore(last)
                            + (IF ri > Len(partial_results) THEN Len(merged) - 1
                                                            ELSE Len(merged))
              /\ \A k \in 1..(Len(M) - MergesBefore(last)) :
                    /\ M[MergesBefore(last) + k].arg = PairArgs(rounds[last])[k]
                    /\ M[MergesBefore(last) + k].out = merged[k]
              /\ ri > Len(partial_results) =>
                    merged[Len(merged)] = partial_results[Len(partial_results)]
        /\ pc = "returned" =>
              /\ Len(M) = MergesBefore(last)
              /\ rounds[last] = <<body>>

\* no merge call is handed all the partial results at once
NoAllAtOnceMerge ==
    \A k \in 1..Len(calls) :
        calls[k].fn = "merge" => calls[k].arg # Join(rounds[1], Separator)

C8_RoundsOnly == Hierarchical => PairwiseRounds

\* ceil(log2 n), for n >= 1
RECURSIVE CeilLog2From(_, _, _)
CeilLog2From(n, r, pow) == IF pow >= n THEN r ELSE CeilLog2From(n, r + 1, 2 * pow)
CeilLog2(n) == CeilLog2From(n, 0, 1)

\* what is left of the reduction: it is a natural number, 0 once returned
Remaining ==
    IF pc = "returned" THEN 0 ELSE 5 * Len(partial_results) - ri

\* C9: Reduction termination: the hierarchical reduction of n >= 2 partial
\* results ends (every step, a merge call that returns among them, leaves
\* less to do, and a step is possible until it has returned), after exactly
\* ceil(log2 n) rounds, and every round leaves fewer results than it found.
C9_Termination ==
    /\ [](Hierarchical =>
            /\ Len(rounds[1]) >= 2
            /\ Len(rounds) - 1 <= CeilLog2(Len(rounds[1]))
            /\ pc = "returned" => Len(rounds) - 1 = CeilLog2(Len(rounds[1]))
            /\ pc # "returned" => ENABLED Next
            /\ Remaining >= 0)
    /\ [][Hierarchical => Remaining' < Remaining]_vars
    /\ [][(Hierarchical /\ Len(rounds') > Len(rounds)) =>
            Len(partial_results') < Len(partial_results)]_vars

\* three partial results were reduced in two rounds
C9_Witness ==
    /\ Hierarchical
    /\ pc = "returned"
    /\ Len(rounds[1]) = 3
    /\ Len(rounds) = 3

-----------------------------------------------------------------------------
(* The end-to-end scenario: a document of 500,000 characters with a "## "   *)
(* heading every 2,000 characters or so, under a budget of 50,000 tokens,   *)
(* with every length divided by Scale.                                      *)

Scale == 100

ScenarioDocLen == 500000 \div Scale
ScenarioSectionLen == 2000 \div Scale
ScenarioBudget == 50000 \div Scale

\* a document of the same make that is within the budget
ScenarioShortLen == 100000 \div Scale

\* sections of len characters each, "## aaa...a\n", cut off at n characters
ScenarioDoc(n, len) ==
    [i \in 1..n |->
        LET r == (i - 1) % len
        IN  IF r \in {0, 1} THEN HASH
            ELSE IF r = 2 THEN SP
            ELSE IF r = len - 1 THEN NL
            ELSE "a"]

\* the service answers in a few words, or at a length that takes three
\* answers past the budget
ScenarioReplies ==
    { <<"x">>,
      [i \in 1..(2 * ScenarioBudget) |-> "y"],
      [i \in 1..(3 * ScenarioBudget) |-> "z"] }

InitScenario ==
    /\ ChunkIdle
    /\ FitIdle
    /\ ChainIdle
    /\ RunIdle
    /\ CleanIdle
    /\ NoteIdle
    /\ MergeIdle
    /\ ParseIdle
    /\ ProviderIdle
    /\ content \in { ScenarioDoc(n, len) :
                        n \in {ScenarioDocLen, ScenarioShortLen},
                        len \in (ScenarioSectionLen - 1)..(ScenarioSectionLen + 1) }
    /\ max_input_tokens = Reserve + ScenarioBudget
    /\ replies = ScenarioReplies
    /\ GenStart

SpecScenario == InitScenario /\ [][Next]_vars

\* C10: End-to-end scenario: the document is split into exactly 3 chunks,
\* each within the budget; the map phase gives 3 partial results; when these,
\* joined, pass the budget, the reduction takes exactly 2 rounds, the merge
\* of results 1 and 2 and then the merge of its answer with result 3, and
\* returns the one text left.
C10_Scenario ==
    Len(content) = ScenarioDocLen =>
        /\ (pc = "map" /\ calls = <<>>) =>
              chunks = split_by_headings(content, ScenarioBudget)
        /\ pc # "generate" =>
              /\ path = "chunked"
              /\ Len(chunks) = 3
              /\ \A k \in 1..3 : estimate_tokens(chunks[k]) <= ScenarioBudget
        /\ Mapped => (Len(MapResults) = 3 /\ Len(CallsOf("body")) = 3)
        /\ (Mapped /\ pc = "returned"
              /\ estimate_tokens(Join(MapResults, Separator)) > ScenarioBudget) =>
              /\ Len(rounds) - 1 = 2
              /\ Len(calls) = 5
              /\ calls[4] = Call("merge", calls[1].out \o Separator \o calls[2].out,
                                 calls[4].out)
              /\ calls[5] = Call("merge", calls[4].out \o Separator \o calls[3].out, body)

\* the scenario has run to its end through the two rounds
C10_Witness ==
    /\ pc = "returned"
    /\ Len(content) = ScenarioDocLen
    /\ Len(chunks) = 3
    /\ Len(rounds) = 3
    /\ estimate_tokens(Join(rounds[1], Separator)) > ScenarioBudget


-----------------------------------------------------------------------------
(* generators/deep_dive.py, qa.py, practice.py: the parsers of the plan      *)
(* stage. None and the empty string, both false in a condition, are <<>>.   *)

Digits == {"0", "1", "2", "3", "4", "5", "6", "7", "8", "9"}

Stars == <<"*", "*">>

\* s.startswith(prefix)
StartsWith(s, prefix) ==
    Len(s) >= Len(prefix) /\ SubSeq(s, 1, Len(prefix)) = prefix

\* s.find(sub, from): the least index, counted from 0, from which sub is
\* read in s, not below from; -1 if there is none
Find(s, sub, from) ==
    LET at == {i \in from..(Len(s) - Len(sub)) : SubSeq(s, i + 1, i + Len(sub)) = sub}
    IN  IF at = {} THEN -1 ELSE CHOOSE i \in at : \A j \in at : i <= j

\* s.split("\n")
RECURSIVE Lines(_)
Lines(s) ==
    LET i == Find(s, <<NL>>, 0)
    IN  IF i = -1 THEN <<s>>
        ELSE <<SubSeq(s, 1, i)>> \o Lines(SubSeq(s, i + 2, Len(s)))

\* s.strip("*")
RECURSIVE StripStars(_)
StripStars(s) ==
    IF s # <<>> /\ Head(s) = "*" THEN StripStars(Tail(s))
    ELSE IF s # <<>> /\ s[Len(s)] = "*" THEN StripStars(SubSeq(s, 1, Len(s) - 1))
    ELSE s

\* s.split(".", 1)[-1]
AfterFirstDot(s) ==
    LET i == Find(s, <<".">>, 0)
    IN  IF i = -1 THEN s ELSE SubSeq(s, i + 2, Len(s))

\* deep_dive.py, lines 198-211: one line of the outline
\* the same with the heading looked for at the first column of the line as
\* it stands
OutlineLineUntrimmed(st, line) ==
    LET stripped == Strip(line)
    IN  IF StartsWith(line, <<HASH, HASH, SP>>)
           /\ ~StartsWith(line, <<HASH, HASH, HASH, SP>>)
        THEN [sections |-> IF st.heading # <<>>
                           THEN Append(st.sections,
                                       [heading |-> st.heading,
                                        points |-> Join(st.points, <<NL>>)])
                           ELSE st.sections,
              heading |-> stripped,
              points |-> <<>>]
        ELSE IF st.heading # <<>> /\ stripped # <<>>
        THEN [st EXCEPT !.points = Append(@, line)]
        ELSE st

OutlineLine(st, line) ==
    LET stripped == Strip(line)
    IN  IF StartsWith(stripped, <<HASH, HASH, SP>>)
           /\ ~StartsWith(stripped, <<HASH, HASH, HASH, SP>>)
        THEN [sections |-> IF st.heading # <<>>
                           THEN Append(st.sections,
                                       [heading |-> st.heading,
                                        points |-> Join(st.points, <<NL>>)])
                           ELSE st.sections,
              heading |-> stripped,
              points |-> <<>>]
        ELSE IF st.heading # <<>> /\ stripped # <<>>
        THEN [st EXCEPT !.points = Append(@, line)]
        ELSE st

RECURSIVE OutlineLoop(_, _, _)
OutlineLoop(st, lines, k) ==
    IF k > Len(lines) THEN st ELSE OutlineLoop(OutlineLine(st, lines[k]), lines, k + 1)

\* DeepDiveGenerator._parse_outline_sections
_parse_outline_sections(outline) ==
    LET st == OutlineLoop([sections |-> <<>>, heading |-> <<>>, points |-> <<>>],
                          Lines(outline), 1)
    IN  IF st.heading # <<>>
        THEN Append(st.sections,
                    [heading |-> st.heading, points |-> Join(st.points, <<NL>>)])
        ELSE st.sections

\* qa.py, lines 179-184, practice.py, lines 193-198: the name of a topic line
TopicName(stripped) ==
    LET start == Find(stripped, Stars, 0)
        end == Find(stripped, Stars, start + 2)
    IN  IF start # -1 /\ end # -1
        THEN SubSeq(stripped, start + 3, end)
        ELSE StripStars(Strip(AfterFirstDot(stripped)))

\* int(s), for a string of digits
RECURSIVE int(_)
int(s) ==
    IF s = <<>> THEN 0
    ELSE 10 * int(SubSeq(s, 1, Len(s) - 1))
         + (CHOOSE d \in 0..9 : ToString(d) = s[Len(s)])

\* the end of the run of characters of the set cls that starts at i
\* (i - 1 if s[i] is not of it)
RECURSIVE RunEnd(_, _, _)
RunEnd(s, i, cls) ==
    IF i <= Len(s) /\ s[i] \in cls THEN RunEnd(s, i + 1, cls) ELSE i - 1

Question == <<"q", "u", "e", "s", "t", "i", "o", "n">>

\* practice.py, lines 200-201: re.search(r"\((\d+)\s+questions?", stripped),
\* the count read at the first match, 5 without a match
TopicCount(stripped) ==
    LET matches == {i \in 1..Len(stripped) :
                      /\ stripped[i] = "("
                      /\ LET d == RunEnd(stripped, i + 1, Digits)
                             w == RunEnd(stripped, d + 1, Whitespace)
                         IN  /\ d >= i + 1
                             /\ w >= d + 1
                             /\ StartsWith(SubSeq(stripped, w + 1, Len(stripped)), Question)}
    IN  IF matches = {} THEN 5
        ELSE LET i == CHOOSE m \in matches : \A n \in matches : m <= n
             IN  int(SubSeq(stripped, i + 1, RunEnd(stripped, i + 1, Digits)))

\* qa.py, lines 169-187, practice.py, lines 184-204: one line of the plan;
\* the count is kept by practice alone
TopicLine(st, line) ==
    LET stripped == Strip(line)
    IN  IF stripped # <<>> /\ stripped[1] \in Digits /\ Find(stripped, Stars, 0) # -1
        THEN [topics |-> IF st.name # <<>>
                         THEN Append(st.topics,
                                     [name |-> st.name,
                                      points |-> Join(st.points, <<NL>>),
                                      count |-> st.count])
                         ELSE st.topics,
              name |-> TopicName(stripped),
              points |-> <<>>,
              count |-> TopicCount(stripped)]
        ELSE IF st.name # <<>> /\ StartsWith(stripped, <<"-">>)
        THEN [st EXCEPT !.points = Append(@, stripped)]
        ELSE st

RECURSIVE TopicLoop(_, _, _)
TopicLoop(st, lines, k) ==
    IF k > Len(lines) THEN st ELSE TopicLoop(TopicLine(st, lines[k]), lines, k + 1)

\* PracticeGenerator._parse_topics: name, concepts (points) and count
Practice_parse_topics(text) ==
    LET st == TopicLoop([topics |-> <<>>, name |-> <<>>, points |-> <<>>, count |-> 5],
                        Lines(text), 1)
    IN  IF st.name # <<>>
        THEN Append(st.topics,
                    [name |-> st.name, points |-> Join(st.points, <<NL>>),
                     count |-> st.count])
        ELSE st.topics

\* QAGenerator._parse_topics: name and questions (points)
QA_parse_topics(text) ==
    LET topics == Practice_parse_topics(text)
    IN  [k \in 1..Len(topics) |-> [name |-> topics[k].name, points |-> topics[k].points]]

-----------------------------------------------------------------------------
(* generators/base.py: _fit_content_to_context, the truncation of the source *)
(* content ahead of the expand calls of a chained style                     *)

\* "Reserve tokens for system prompt and output generation"
overhead == 10000

\* "minimum floor"
minimum_floor == 10000

\* "\n\n[Content truncated to fit context window]"
TruncationMarker ==
    << NL, NL, "[", "C", "o", "n", "t", "e", "n", "t", SP, "t", "r", "u",
       "n", "c", "a", "t", "e", "d", SP, "t", "o", SP, "f", "i", "t", SP,
       "c", "o", "n", "t", "e", "x", "t", SP, "w", "i", "n", "d", "o", "w",
       "]" >>

\* sum(estimate_tokens(p) for p in other_parts)
RECURSIVE SumTokens(_)
SumTokens(parts) ==
    IF parts = <<>> THEN 0
    ELSE estimate_tokens(Head(parts)) + SumTokens(Tail(parts))

\* s[:n], for n >= 0
Take(s, n) == SubSeq(s, 1, IF n < Len(s) THEN n ELSE Len(s))

\* s.rfind("\n\n"): the index, counted from 0, of the last blank-line
\* boundary of s, or -1
RFindBlankLine(s) ==
    LET at == {i \in 1..(Len(s) - 1) : s[i] = NL /\ s[i + 1] = NL}
    IN  IF at = {} THEN -1
        ELSE (CHOOSE i \in at : \A j \in at : j <= i) - 1

\* line 248 lost: no floor under the allowance
FloorNever(available) == FALSE

\* line 248: available <= 0
FloorApplies(available) == available <= 0

\* line 260 with >= for > : a boundary at the midpoint is taken too
PastMidpointOrAt(last_para, max_chars) == last_para >= max_chars \div 2

\* line 260: last_para > max_chars // 2
PastMidpoint(last_para, max_chars) == last_para > max_chars \div 2

\* lines 244-249: the allowance for the content, in tokens
ContentAllowance(parts, max_in) ==
    LET available == max_in - overhead - SumTokens(parts)
    IN  IF FloorApplies(available) THEN minimum_floor ELSE available

\* line 262: truncated + "\n\n[Content truncated to fit context window]"
WithMarker(truncated) == truncated \o TruncationMarker

_fit_content_to_context(text, parts, max_in) ==
    LET available == ContentAllowance(parts, max_in)
    IN  IF estimate_tokens(text) <= available
        THEN text
        ELSE LET max_chars == available * 4
                 truncated == Take(text, max_chars)
                 last_para == RFindBlankLine(truncated)
             IN  IF PastMidpoint(last_para, max_chars)
                 THEN WithMarker(Take(truncated, last_para))
                 ELSE WithMarker(truncated)

\* bounds of the inputs of _fit_content_to_context: the length of a short
\* content and the allowance left to it
MaxFitLen == 12
MaxFitAvail == 2

\* the texts of a's and newlines up to n characters
RECURSIVE FitTexts(_)
FitTexts(n) ==
    IF n = 0 THEN {<<>>}
    ELSE LET shorter == FitTexts(n - 1)
         IN  shorter \cup {t \o <<ch>> : t \in shorter, ch \in {"a", NL}}

\* a text of n a's with a blank line at index p, counted from 0 (none for p < 0)
LongText(n, p) ==
    [i \in 1..n |-> IF p >= 0 /\ i \in {p + 1, p + 2} THEN NL ELSE "a"]

\* contents around the size the floor allows, 4 * minimum_floor characters,
\* with a blank line about the middle or the end of that region, or none
LongTexts ==
    { LongText(4 * minimum_floor + d, p) :
        d \in {3, 4, 5},
        p \in { -1, 2 * minimum_floor, 2 * minimum_floor + 1,
                4 * minimum_floor - 2, 4 * minimum_floor - 1 } }

\* the lists of other parts: none, a plan, a plan and a buffer
FitOthers ==
    { <<>>,
      << <<"p", "p", "p", "p">> >>,
      << <<"p", "p", "p">>, <<"b", "b", "b", "b", "b">> >> }

InitFit ==
    /\ ChunkIdle
    /\ GenIdle
    /\ ChainIdle
    /\ RunIdle
    /\ CleanIdle
    /\ NoteIdle
    /\ MergeIdle
    /\ ParseIdle
    /\ ProviderIdle
    /\ other_parts \in FitOthers
    /\ \/ /\ fit_content \in FitTexts(MaxFitLen)
          /\ fit_max_input \in
                { overhead + SumTokens(other_parts) + k : k \in (-1)..MaxFitAvail }
       \/ /\ fit_content \in LongTexts
          /\ fit_max_input \in
                { overhead + SumTokens(other_parts) + k : k \in (-1)..0 }
    /\ fit_state = "input"
    /\ fit_result = <<>>

\* self._fit_content_to_context(content, *other_parts)
CallFit ==
    /\ fit_state = "input"
    /\ fit_result' = _fit_content_to_context(fit_content, other_parts, fit_max_input)
    /\ fit_state' = "returned"
    /\ UNCHANGED <<fit_content, other_parts, fit_max_input>>
    /\ UNCHANGED outsideFit

NextFit == CallFit

SpecFit == InitFit /\ [][NextFit]_vars

-----------------------------------------------------------------------------
(* Properties of _fit_content_to_context *)

FitReturned == fit_state = "returned"

\* what the other parts and the overhead leave of the input budget
LeftForContent == fit_max_input - overhead - SumTokens(other_parts)

\* the allowance the content is held to: what is left, or the floor
Allowance == IF LeftForContent <= 0 THEN minimum_floor ELSE LeftForContent

\* the blank-line boundaries of text that lie within its first n characters,
\* as indices counted from 0
BoundariesWithin(text, n) ==
    {p \in 0..((IF n <= Len(text) THEN n ELSE Len(text)) - 2) :
        text[p + 1] = NL /\ text[p + 2] = NL}

\* text, cut at the last blank-line boundary within its first n characters
\* if that one lies past n / 2, at n characters otherwise
CutPoint(text, n) ==
    LET B == BoundariesWithin(text, n)
    IN  IF \E p \in B : p > n \div 2 /\ \A q \in B : q <= p
        THEN CHOOSE p \in B : \A q \in B : q <= p
        ELSE n

\* C18: Context fitting bound: the content _fit_content_to_context returns,
\* the other parts and the fixed overhead of 10,000 tokens are together
\* within max_input_tokens.
C18_FitBound ==
    FitReturned =>
        estimate_tokens(fit_result) + SumTokens(other_parts) + overhead <= fit_max_input

\* C19: Truncation cut rule: content within the allowance is returned as it
\* is, without a marker; other content is cut to its first 4 * allowance
\* characters, and back to the last blank-line boundary of that region if
\* that boundary lies past the middle of the region; the truncation marker is
\* appended in both cases, so the result is a prefix of the content and then
\* the marker.
C19_CutRule ==
    FitReturned =>
        IF estimate_tokens(fit_content) <= Allowance
        THEN fit_result = fit_content
        ELSE /\ Len(fit_content) > 4 * Allowance
             /\ fit_result =
                   SubSeq(fit_content, 1, CutPoint(fit_content, 4 * Allowance))
                       \o TruncationMarker

\* a content over an allowance above the floor was cut back to a blank line
\* past the middle, and there is another blank line before the middle
C19_Witness ==
    /\ FitReturned
    /\ LeftForContent > 0
    /\ estimate_tokens(fit_content) > Allowance
    /\ Len(fit_result) < 4 * Allowance + Len(TruncationMarker)
    /\ \E p \in BoundariesWithin(fit_content, 4 * Allowance) : p < 2 * Allowance

\* C20: BudgetExhaustion recovery: when the other parts and the overhead
\* leave nothing of the input budget, _fit_content_to_context still returns:
\* it holds the content to the floor of 10,000 tokens, so a content within
\* the floor comes back as it is and a longer one comes back as a prefix of
\* at most 4 * 10,000 characters and the marker.
C20_FloorRecovery ==
    (FitReturned /\ LeftForContent <= 0) =>
        IF estimate_tokens(fit_content) <= 10000
        THEN fit_result = fit_content
        ELSE LET n == Len(fit_result) - Len(TruncationMarker)
             IN  /\ n \in (2 * 10000 + 1)..(4 * 10000)
                 /\ fit_result = SubSeq(fit_content, 1, n) \o TruncationMarker

\* with nothing left of the budget, a content past the floor was truncated
C20_Witness ==
    /\ FitReturned
    /\ LeftForContent < 0
    /\ estimate_tokens(fit_content) > 10000
    /\ fit_result # fit_content
    /\ Len(fit_result) <= 4 * 10000 + Len(TruncationMarker)

-----------------------------------------------------------------------------
(* generators/deep_dive.py, qa.py, practice.py: _generate_body of the        *)
(* chained styles, run by NoteGenerator.generate on the whole content or on *)
(* each chunk. The title and the url of the document are the same in every  *)
(* prompt and are left out of the calls.                                    *)

ChainedStyles == {"deep_dive", "qa", "practice"}

BufferWord ==
    << "p", "r", "o", "m", "p", "t", SP, "o", "v", "e", "r", "h", "e", "a", "d", SP,
       "b", "u", "f", "f", "e", "r" >>

\* "prompt overhead buffer" * 50
PromptOverheadBuffer ==
    [i \in 1..(50 * Len(BufferWord)) |-> BufferWord[((i - 1) % Len(BufferWord)) + 1]]

\* what a generation call that fails leaves in place of an answer
LLMFailure == <<"LLMError">>

\* _system_prompt of practice (practice.py:34) and of summary (summary.py:28)
\* calls self._math_formatting_instructions(), which no class defines
\* (base.py:14-265): AttributeError
SystemPromptRaises(st) == st \in {"practice", "summary"}

\* _section_system_prompt of practice (practice.py:156) does the same
ExpandPromptRaises(st) == st = "practice"

\* the parser of the style
ParsePlan(st, text) ==
    IF st = "deep_dive" THEN _parse_outline_sections(text)
    ELSE IF st = "qa" THEN QA_parse_topics(text)
    ELSE Practice_parse_topics(text)

\* what the prompt of an expand call is made of, beside title and url:
\* _expand_user_prompt (deep_dive.py:176-188), _qa_section_user_prompt
\* (qa.py:152-160), _section_user_prompt (practice.py:166-174)
ExpandArg(st, fitted, item, full_outline, start_number) ==
    [content |-> fitted,
     name |-> IF st = "deep_dive" THEN item.heading ELSE item.name,
     points |-> item.points,
     plan |-> IF st = "deep_dive" THEN full_outline ELSE <<>>,
     start |-> IF st = "practice" THEN start_number ELSE 0]

\* _generate_body is running, or about to be called, for the whole content
\* (generate, line 89) or for the next chunk (_generate_from_chunks, line 135)
InPass == pc = "direct" \/ (pc = "map" /\ Len(partial_results) < Len(chunks))

\* the content argument of that call
PassInput == IF pc = "direct" THEN content ELSE chunks[Len(partial_results) + 1]

\* an exception leaves generate: its locals are gone
Raise(err) ==
    /\ pc' = "raised"
    /\ error' = err
    /\ chunks' = <<>>
    /\ partial_results' = <<>>
    /\ merged' = <<>>
    /\ ri' = 0
    /\ stage' = "plan"
    /\ plan' = <<>>
    /\ items' = <<>>
    /\ fitted_content' = <<>>
    /\ expanded_sections' = <<>>
    /\ question_number' = 1
    /\ UNCHANGED <<content, max_input_tokens, replies, body, rounds, path, style, passes>>

\* _generate_body returns result: to generate (line 89) or to the loop over
\* the chunks (line 138)
EndPass(result) ==
    /\ IF pc = "direct"
       THEN /\ body' = result
            /\ pc' = "returned"
            /\ partial_results' = partial_results
       ELSE /\ partial_results' = Append(partial_results, result)
            /\ UNCHANGED <<body, pc>>
    /\ passes' = Append(passes,
                    [input |-> PassInput, plan |-> plan, items |-> items,
                     fitted |-> fitted_content, last |-> Len(calls'),
                     result |-> result])
    /\ stage' = "plan"
    /\ plan' = <<>>
    /\ items' = <<>>
    /\ fitted_content' = <<>>
    /\ expanded_sections' = <<>>
    /\ question_number' = 1
    /\ UNCHANGED <<content, max_input_tokens, replies, chunks, merged, ri, rounds,
                   path, style, error>>

\* deep_dive.py:69-95, qa.py:67-92, practice.py:71-95: the plan call, the
\* parse of its answer, and the way taken from there: to the fallback
\* without items, to the expand calls, on the fitted content, with items
PlanCall ==
    /\ InPass
    /\ stage = "plan"
    /\ \E r \in replies :
          LET parsed == ParsePlan(style, r)
          IN  /\ calls' = Append(calls, Call("plan", PassInput, r))
              /\ IF parsed = <<>>
                 THEN IF SystemPromptRaises(style)
                      THEN Raise("AttributeError")
                      ELSE /\ stage' = "fallback"
                           /\ plan' = r
                           /\ items' = parsed
                           /\ UNCHANGED <<fitted_content, expanded_sections, question_number>>
                           /\ UNCHANGED <<content, max_input_tokens, replies, pc, chunks,
                                          partial_results, merged, ri, body, rounds, path,
                                          style, error, passes>>
                 ELSE IF ExpandPromptRaises(style)
                      THEN Raise("AttributeError")
                      ELSE /\ stage' = "expand"
                           /\ plan' = r
                           /\ items' = parsed
                           /\ fitted_content' =
                                 _fit_content_to_context(PassInput,
                                     <<r, PromptOverheadBuffer>>, max_input_tokens)
                           /\ UNCHANGED <<expanded_sections, question_number>>
                           /\ UNCHANGED <<content, max_input_tokens, replies, pc, chunks,
                                          partial_results, merged, ri, body, rounds, path,
                                          style, error, passes>>
    /\ UNCHANGED outsideChain

\* deep_dive.py:82-86, qa.py:80-84, practice.py:83-87: the single pass over
\* the whole content, on the base prompt of the style
FallbackCall ==
    /\ InPass
    /\ stage = "fallback"
    /\ \E r \in replies :
          /\ calls' = Append(calls, Call("fallback", PassInput, r))
          /\ EndPass(r)
    /\ UNCHANGED outsideChain

\* the sections joined last to first
JoinedReversed(list) ==
    Join([i \in 1..Len(list) |-> list[Len(list) + 1 - i]], <<NL, NL>>)

\* "\n\n".join(expanded_sections)
Joined(list) == Join(list, <<NL, NL>>)

\* the expand call given the sections expanded so far along with the content
ExpandCallWithPrevious ==
    /\ InPass
    /\ stage = "expand"
    /\ Len(expanded_sections) < Len(items)
    /\ \E r \in replies :
          LET item == items[Len(expanded_sections) + 1]
          IN  /\ calls' = Append(calls,
                    Call("expand",
                         ExpandArg(style, fitted_content \o Joined(expanded_sections),
                                   item, plan, question_number), r))
              /\ expanded_sections' = Append(expanded_sections, r)
              /\ question_number' =
                    IF style = "practice" THEN question_number + item.count
                    ELSE question_number
    /\ UNCHANGED <<content, max_input_tokens, replies, pc, chunks, partial_results,
                   merged, ri, body, rounds, path>>
    /\ UNCHANGED <<style, stage, plan, items, fitted_content, error, passes>>
    /\ UNCHANGED outsideChain

\* deep_dive.py:98-110, qa.py:96-106, practice.py:100-114: one turn of the
\* loop over the sections or topics
ExpandCall ==
    /\ InPass
    /\ stage = "expand"
    /\ Len(expanded_sections) < Len(items)
    /\ \E r \in replies :
          LET item == items[Len(expanded_sections) + 1]
          IN  /\ calls' = Append(calls,
                    Call("expand", ExpandArg(style, fitted_content, item, plan,
                                             question_number), r))
              /\ expanded_sections' = Append(expanded_sections, r)
              /\ question_number' =
                    IF style = "practice" THEN question_number + item.count
                    ELSE question_number
    /\ UNCHANGED <<content, max_input_tokens, replies, pc, chunks, partial_results,
                   merged, ri, body, rounds, path>>
    /\ UNCHANGED <<style, stage, plan, items, fitted_content, error, passes>>
    /\ UNCHANGED outsideChain

\* deep_dive.py:116, qa.py:108, practice.py:116:
\* return "\n\n".join(expanded_sections)
Assemble ==
    /\ InPass
    /\ stage = "expand"
    /\ Len(expanded_sections) = Len(items)
    /\ UNCHANGED calls
    /\ EndPass(Joined(expanded_sections))
    /\ UNCHANGED outsideChain

\* the generation call generate is about to make, if it is about to make one
CallPending ==
    \/ InPass /\ (stage = "expand" => Len(expanded_sections) < Len(items))
    \/ pc = "merge_all"
    \/ pc = "round" /\ ri + 1 < Len(partial_results)

PendingCall ==
    IF pc = "merge_all" THEN [fn |-> "merge", arg |-> Join(partial_results, Separator)]
    ELSE IF pc = "round"
    THEN [fn |-> "merge",
          arg |-> partial_results[ri + 1] \o Separator \o partial_results[ri + 2]]
    ELSE IF stage = "expand"
    THEN [fn |-> "expand",
          arg |-> ExpandArg(style, fitted_content, items[Len(expanded_sections) + 1],
                            plan, question_number)]
    ELSE [fn |-> stage, arg |-> PassInput]

\* the failed call caught and generate going on to make the call again
LLMRaisesRetried ==
    /\ CallPending
    /\ calls' = Append(calls, Call(PendingCall.fn, PendingCall.arg, LLMFailure))
    /\ UNCHANGED <<content, max_input_tokens, replies, pc, chunks, partial_results,
                   merged, ri, body, rounds, path>>
    /\ UNCHANGED chainVars
    /\ UNCHANGED outsideChain

\* llm/anthropic.py:68-70, llm/openai.py:60-62: self._llm.generate raises
\* LLMError; nothing in the generators catches it (base.py:70-189,
\* deep_dive.py:57-116, qa.py:55-108, practice.py:59-116)
LLMRaises ==
    /\ CallPending
    /\ calls' = Append(calls, Call(PendingCall.fn, PendingCall.arg, LLMFailure))
    /\ Raise("LLMError")
    /\ UNCHANGED outsideChain

\* an outline of two sections, the first with a point
OutlineReply == << HASH, HASH, SP, "a", NL, "-", SP, "p", NL, HASH, HASH, SP, "b" >>

\* a topic plan of two topics, the first with a count and a point
TopicReply ==
    << "1", ".", SP, "*", "*", "t", "*", "*", SP, "(", "2", SP >> \o Question \o
    << "s", ")", NL, "-", SP, "q", NL, "2", ".", SP, "*", "*", "u", "*", "*" >>

\* the answers of the service: a text no parser finds an item in, and a
\* plan in the form the style asks for
ChainReplies(st) == { <<"x">>, IF st = "deep_dive" THEN OutlineReply ELSE TopicReply }

MaxChainBlocks == 3
MaxChainAvailable == 2

\* documents of sections under top-level headings, each two tokens long
RECURSIVE ChainDoc(_)
ChainDoc(n) ==
    IF n = 0 THEN <<>>
    ELSE ChainDoc(n - 1) \o <<HASH, SP, "a", "a", "a", "a", "a", "a", "a", NL>>

\* a document within the budget whose content no longer fits once the plan
\* and the buffer are counted (deep_dive.py:93-95)
TightDocLen == 4 * (estimate_tokens(PromptOverheadBuffer) + 25)
TightDoc == LongText(TightDocLen, 60)

InitChain ==
    /\ ChunkIdle
    /\ FitIdle
    /\ RunIdle
    /\ CleanIdle
    /\ NoteIdle
    /\ MergeIdle
    /\ ParseIdle
    /\ ProviderIdle
    /\ style \in ChainedStyles
    /\ stage = "plan"
    /\ plan = <<>>
    /\ items = <<>>
    /\ fitted_content = <<>>
    /\ expanded_sections = <<>>
    /\ question_number = 1
    /\ error = "none"
    /\ passes = <<>>
    /\ \/ /\ content \in {ChainDoc(n) : n \in 0..MaxChainBlocks}
          /\ max_input_tokens \in {Reserve + k : k \in 0..MaxChainAvailable}
       \/ /\ content = TightDoc
          /\ max_input_tokens = Reserve + estimate_tokens(TightDoc)
    /\ replies = ChainReplies(style)
    /\ GenStart

NextChain ==
    \/ Decide
    \/ PlanCall
    \/ FallbackCall
    \/ ExpandCall
    \/ Assemble
    \/ LLMRaises
    \/ EndMap
    \/ MergeAll
    \/ PairMerge
    \/ CarryForward
    \/ EndRound

SpecChain == InitChain /\ [][NextChain]_vars

-----------------------------------------------------------------------------
(* cli.py: main, and generators/__init__.py: run_all_generators *)

\* the generators run_all_generators builds (lines 46-51)
Styles == <<"summary", "deep_dive", "qa", "practice">>

\* base.py:21: def __init__(self, llm); no generator class defines another
InitParams == {"llm"}

\* generators/__init__.py:47-50: SummaryGenerator(llm, vault_context=vault_context)
ConstructArgs == {"llm", "vault_context"}

\* a call is bound to the parameters of the function, or TypeError
Binds(args, params) == args \subseteq params

\* the exit status of the interpreter left by an exception nothing catches
UncaughtStatus == 1

\* what scraping a url yields: CrawlError, or a document
ScrapeOutcomes == {<<"CrawlError">>, ChainDoc(1), ChainDoc(2)}

MaxUrls == 4

RECURSIVE UrlLists(_)
UrlLists(n) ==
    IF n = 0 THEN {<<>>}
    ELSE LET shorter == UrlLists(n - 1)
         IN  shorter \cup {l \o <<o>> : l \in shorter, o \in ScrapeOutcomes}

\* cli.py:61-100: urls is required (line 18); configuration and provider
\* are taken as loaded
InitRun ==
    /\ ChunkIdle
    /\ CleanIdle
    /\ NoteIdle
    /\ MergeIdle
    /\ ParseIdle
    /\ ProviderIdle
    /\ FitIdle
    /\ ChainIdle
    /\ content = <<>>
    /\ max_input_tokens = Reserve
    /\ replies = {}
    /\ GenStart
    /\ urls \in UrlLists(MaxUrls) \ {<<>>}
    /\ url_pos = 0
    /\ scraped = <<>>
    /\ had_errors = FALSE
    /\ total_failure = TRUE
    /\ bundle_notes = <<>>
    /\ bundle_errors = <<>>
    /\ run_calls = <<>>
    /\ main_pc = "scrape"
    /\ exit_status = NoStatus

\* cli.py:102-128: the next url is scraped; CrawlError sets had_errors and
\* the loop goes on to the next url
Scrape ==
    /\ main_pc = "scrape"
    /\ url_pos < Len(urls)
    /\ url_pos' = url_pos + 1
    /\ IF urls[url_pos + 1] = <<"CrawlError">>
       THEN /\ had_errors' = TRUE
            /\ UNCHANGED <<scraped, main_pc>>
       ELSE /\ scraped' = urls[url_pos + 1]
            /\ main_pc' = "generate"
            /\ had_errors' = had_errors
    /\ UNCHANGED <<urls, total_failure, bundle_notes, bundle_errors, run_calls, exit_status>>
    /\ UNCHANGED outsideRun

\* cli.py:136-144 and generators/__init__.py:35-47: the bundle is made, the
\* raw note is put in it, and the first constructor is called with
\* vault_context, which __init__ does not take: TypeError. It is raised
\* outside the try of lines 62-73, and cli.py:141 catches Web2VaultError
\* only, so it ends the process; lines 53-75 and cli.py:146-168 are not
\* reached from here
RunAllGenerators ==
    /\ main_pc = "generate"
    /\ ~Binds(ConstructArgs, InitParams)
    /\ bundle_notes' = <<"raw">>
    /\ bundle_errors' = <<>>
    /\ run_calls' = Append(run_calls,
                        [scraped |-> scraped, returned |-> FALSE, raised |-> "TypeError",
                         notes |-> <<"raw">>, errors |-> <<>>])
    /\ main_pc' = "exited"
    /\ exit_status' = UncaughtStatus
    /\ UNCHANGED <<urls, url_pos, scraped, had_errors, total_failure>>
    /\ UNCHANGED outsideRun

\* cli.py:161-168: the loop over the urls is over
Exit ==
    /\ main_pc = "scrape"
    /\ url_pos = Len(urls)
    /\ exit_status' = IF total_failure THEN 2 ELSE IF had_errors THEN 1 ELSE 0
    /\ main_pc' = "exited"
    /\ UNCHANGED <<urls, url_pos, scraped, had_errors, total_failure, bundle_notes,
                   bundle_errors, run_calls>>
    /\ UNCHANGED outsideRun

NextRun ==
    \/ Scrape
    \/ RunAllGenerators
    \/ Exit

SpecRun == InitRun /\ [][NextRun]_vars

-----------------------------------------------------------------------------
(* Properties of the chained styles *)

\* the positions in calls of the generation calls that failed
FailedCalls == {k \in 1..Len(calls) : calls[k].out = LLMFailure}

\* C11: Failure propagation: a generation call that fails (plan, expand,
\* fallback or merge, on the whole content or on a chunk) is the last call
\* of that generation: it is not made again, no call follows it, generate is
\* left by the error, the results obtained before it are gone and no body
\* is returned.
C11_FailurePropagation ==
    \A k \in FailedCalls :
        /\ k = Len(calls)
        /\ pc = "raised"
        /\ error = "LLMError"
        /\ partial_results = <<>> /\ merged = <<>> /\ expanded_sections = <<>>
        /\ body = <<>>
        /\ ~ENABLED NextChain

\* an expand call failed on a later chunk, after a pass on an earlier chunk
\* had returned its result
C11_Witness ==
    /\ FailedCalls # {}
    /\ calls[Len(calls)].fn = "expand"
    /\ passes # <<>>
    /\ path = "chunked"

\* the positions in calls of the plan calls whose answer the parser of the
\* style finds no item in
EmptyPlans ==
    {k \in 1..Len(calls) :
        /\ calls[k].fn = "plan"
        /\ calls[k].out # LLMFailure
        /\ ParsePlan(style, calls[k].out) = <<>>}

\* the fallback of a pass whose plan, at position k of calls, has no items:
\* no error of the pass's own, then one fallback call on the content the
\* plan call was made on, no expand call, and the answer of the fallback
\* call returned as the body of the pass
FallsBack(k) ==
    /\ error # "AttributeError"
    /\ k = Len(calls) => \/ InPass /\ stage = "fallback"
                         \/ pc = "raised"
    /\ k < Len(calls) =>
          /\ calls[k + 1].fn = "fallback"
          /\ calls[k + 1].arg = calls[k].arg
          /\ calls[k + 1].out # LLMFailure =>
                \E i \in 1..Len(passes) :
                    /\ passes[i].last = k + 1
                    /\ passes[i].input = calls[k].arg
                    /\ passes[i].result = calls[k + 1].out
                    /\ path = "direct" => (pc = "returned" /\ body = calls[k + 1].out)
    /\ k + 1 < Len(calls) => calls[k + 2].fn \notin {"fallback", "expand"}

\* C14: Plan-parse fallback: in every chained style, a plan the parser finds
\* no item in is followed by exactly one generation call over the whole
\* content of the pass, on the base prompts of the style, by no expand call,
\* and the answer of that call is the body of the pass; the empty parse is
\* not an error.
C14_PlanParseFallback == \A k \in EmptyPlans : FallsBack(k)

\* the same for deep dive and Q&A alone
C14_DeepDiveAndQA == style # "practice" => \A k \in EmptyPlans : FallsBack(k)

\* the positions in calls of the plan calls whose answer has items
ItemPlans ==
    {k \in 1..Len(calls) :
        /\ calls[k].fn = "plan"
        /\ calls[k].out # LLMFailure
        /\ ParsePlan(style, calls[k].out) # <<>>}

\* the name of an item, as the expand prompt gives it
ItemName(item) == IF style = "deep_dive" THEN item.heading ELSE item.name

\* the stages of the pass whose plan is at position k of calls: the expand
\* calls follow the plan call, one per item and in the order of the items,
\* and nothing but them; the pass returns after the last of them and not
\* before
StagesInOrder(k) ==
    LET parsed == ParsePlan(style, calls[k].out)
        n == Len(parsed)
    IN  /\ error # "AttributeError"
        /\ \A j \in 1..n :
              k + j <= Len(calls) =>
                 /\ calls[k + j].fn = "expand"
                 /\ calls[k + j].arg.name = ItemName(parsed[j])
                 /\ calls[k + j].out = LLMFailure => k + j = Len(calls)
        /\ k + n < Len(calls) => calls[k + n + 1].fn \notin {"expand", "fallback"}
        /\ \A i \in 1..Len(passes) :
              (passes[i].last >= k /\ passes[i].last <= k + n) => passes[i].last = k + n
        /\ (k + n <= Len(calls) /\ calls[k + n].out # LLMFailure) =>
              \/ InPass /\ stage = "expand" /\ Len(expanded_sections) = n
                        /\ Len(calls) = k + n
              \/ \E i \in 1..Len(passes) : passes[i].last = k + n /\ passes[i].items = parsed

\* no expand call without the plan call of its pass before it
ExpandAfterPlan ==
    \A j \in 1..Len(calls) :
        calls[j].fn = "expand" =>
           \E k \in ItemPlans : k < j /\ j <= k + Len(ParsePlan(style, calls[k].out))

\* C15: Pipeline stage ordering: in a pass the plan call has returned and
\* its answer is parsed before any expand call is made, the pass is
\* assembled only after the expand calls of all its items, and with k >= 1
\* items the pass makes exactly 1 + k generation calls, the plan call and
\* one expand call per item, and none for the assembly.
C15_StageOrdering ==
    /\ ExpandAfterPlan
    /\ \A k \in ItemPlans : StagesInOrder(k)

\* the same for deep dive and Q&A alone
C15_DeepDiveAndQA == style # "practice" => C15_StageOrdering

\* the passes that returned a body assembled from the items of a plan
AssembledPasses == {i \in 1..Len(passes) : passes[i].items # <<>>}

\* C16: Assembly order: the body a pass returns is its expanded sections
\* joined by a blank line in the order of the plan: the i-th section is the
\* answer of the expand call made for the i-th parsed item, and every item
\* has exactly one section.
C16_AssemblyOrder ==
    \A i \in AssembledPasses :
        LET p == passes[i]
            n == Len(p.items)
            k == p.last - n
        IN  /\ k >= 1
            /\ calls[k].fn = "plan"
            /\ calls[k].out = p.plan
            /\ i = Len(passes) => p.items = ParsePlan(style, p.plan)
            /\ \A j \in 1..n :
                  /\ calls[k + j].fn = "expand"
                  /\ calls[k + j].arg.name = ItemName(p.items[j])
                  /\ calls[k + j].arg.points = p.items[j].points
            /\ p.result = Join([j \in 1..n |-> calls[k + j].out], <<NL, NL>>)
            /\ (path = "direct" /\ pc = "returned") => body = p.result

\* a pass over a chunk returned the sections of two items whose expansions
\* differ
C16_Witness ==
    \E i \in AssembledPasses :
        /\ Len(passes[i].items) = 2
        /\ calls[passes[i].last].out # calls[passes[i].last - 1].out
        /\ path = "chunked"

\* the number the questions of item j start at: 1 and the counts planned
\* for the items before it
RECURSIVE PlannedStart(_, _)
PlannedStart(parsed, j) ==
    IF j = 1 THEN 1 ELSE PlannedStart(parsed, j - 1) + parsed[j - 1].count

\* the content the expand calls of a pass are given: the content of the
\* plan call, at position k of calls, fitted beside the plan and the buffer
FittedFor(k) ==
    _fit_content_to_context(calls[k].arg, <<calls[k].out, PromptOverheadBuffer>>,
                            max_input_tokens)

\* a pass is in its loop over the items
Expanding == InPass /\ stage = "expand"

\* C17: Expansion independence: what an expand call is given is made of the
\* fitted source content, the plan text, the item's own name and points and,
\* for practice, the planned start number, all of them fixed by the plan
\* call of the pass; the answer of no other expand call enters it, and all
\* the expand calls of a pass are given the same fitted content. Stated of
\* the expand calls a pass has made so far, while it is in its loop.
C17_ExpansionIndependence ==
    Expanding =>
        LET done == Len(expanded_sections)
            k == Len(calls) - done
            parsed == ParsePlan(style, calls[k].out)
            fitted == FittedFor(k)
        IN  /\ k >= 1
            /\ calls[k].fn = "plan"
            /\ \A j \in 1..done :
                  LET given == calls[k + j].arg
                  IN  /\ calls[k + j].fn = "expand"
                      /\ given.content = fitted
                      /\ given.name = ItemName(parsed[j])
                      /\ given.points = parsed[j].points
                      /\ given.plan = IF style = "deep_dive" THEN calls[k].out ELSE <<>>
                      /\ given.start =
                            IF style = "practice" THEN PlannedStart(parsed, j) ELSE 0

\* the second expand call of a pass was made after the first had answered
\* with a plan-like text, on a content that had to be cut to fit beside the
\* plan
C17_Witness ==
    /\ Expanding
    /\ Len(expanded_sections) = 2
    /\ expanded_sections[1] # <<"x">>
    /\ calls[Len(calls)].fn = "expand"
    /\ calls[Len(calls)].arg.content # PassInput
    /\ calls[Len(calls)].arg.content # <<>>

-----------------------------------------------------------------------------
(* Properties of the run over the styles *)

\* the notes of a bundle that a style generated
StyleNotes(notes) == SelectSeq(notes, LAMBDA t : t # "raw")

\* C12: Sibling-style isolation: a call of run_all_generators runs every
\* style whatever the others did and returns a bundle holding the notes of
\* the styles that succeeded and one error entry for each style that failed:
\* style notes + errors = number of styles.
C12_SiblingIsolation ==
    \A i \in 1..Len(run_calls) :
        /\ run_calls[i].returned
        /\ Len(StyleNotes(run_calls[i].notes)) + Len(run_calls[i].errors) = Len(Styles)

\* cli.py:164-165: the exit status of a run in which some style failed and
\* some note was written
PartialFailureStatus == 1

\* the run is over and a scraped document of it was left without a note of
\* any style
EmptyResultSet ==
    /\ main_pc = "exited"
    /\ \E i \in 1..Len(run_calls) : StyleNotes(run_calls[i].notes) = <<>>

\* C13: a document whose styles all failed is reported as a harder failure
\* than a partial one: the exit status of such a run is strictly greater
\* than the status of a run with a partial failure.
C13_EmptyHarder == EmptyResultSet => exit_status > PartialFailureStatus

-----------------------------------------------------------------------------
(* generators/base.py: NoteGenerator._clean_output *)

Dashes == <<"-", "-", "-">>

Uppers ==
    << "A", "B", "C", "D", "E", "F", "G", "H", "I", "J", "K", "L", "M",
       "N", "O", "P", "Q", "R", "S", "T", "U", "V", "W", "X", "Y", "Z" >>

Lowers ==
    << "a", "b", "c", "d", "e", "f", "g", "h", "i", "j", "k", "l", "m",
       "n", "o", "p", "q", "r", "s", "t", "u", "v", "w", "x", "y", "z" >>

\* s.lower()
Lower(s) ==
    [i \in 1..Len(s) |->
        IF \E k \in 1..Len(Uppers) : Uppers[k] = s[i]
        THEN Lowers[CHOOSE k \in 1..Len(Uppers) : Uppers[k] = s[i]]
        ELSE s[i]]

\* sub is read in s from position i on
ReadAt(s, sub, i) ==
    i >= 1 /\ i + Len(sub) - 1 <= Len(s) /\ SubSeq(s, i, i + Len(sub) - 1) = sub

\* the greatest and the least member of a set of numbers
Greatest(S) == CHOOSE x \in S : \A y \in S : y <= x
Least(S) == CHOOSE x \in S : \A y \in S : x <= y

\* lines 200-206: the position of the last character the pattern
\* ^---\s*\n.*?\n---\s*\n? takes, 0 if it does not match. \s* takes as much
\* whitespace as still lets the rest match, .*? as little, across lines; the
\* whitespace after the closing dashes is taken whole
FrontmatterEnd(text) ==
    LET opens == {e \in 4..Len(text) :
                     text[e] = NL /\ \A i \in 4..e : text[i] \in Whitespace}
        closes(e) == {q \in (e + 1)..Len(text) : ReadAt(text, <<NL>> \o Dashes, q)}
        usable == {e \in opens : closes(e) # {}}
    IN  IF ~StartsWith(text, Dashes) \/ usable = {} THEN 0
        ELSE SkipWhitespace(text, Least(closes(Greatest(usable))) + 4) - 1

\* re.sub(r"^---\s*\n.*?\n---\s*\n?", "", text, count=1, flags=re.DOTALL)
StripFrontmatter(text) == SubSeq(text, FrontmatterEnd(text) + 1, Len(text))

\* line 212: re.match(r"^(#)\s+(.+)", text) on a text without whitespace
\* at its ends
H1Matches(text) ==
    /\ Len(text) >= 2
    /\ text[1] = HASH
    /\ text[2] \in Whitespace
    /\ SkipWhitespace(text, 2) <= Len(text)

\* h1_match.group(2): from the end of the whitespace to the end of that line
H1Group(text) ==
    LET from == SkipWhitespace(text, 2)
        nl == Find(text, <<NL>>, from - 1)
    IN  SubSeq(text, from, IF nl = -1 THEN Len(text) ELSE nl)

\* type in heading
Contains(heading, type) == Find(heading, type, 0) # -1

\* lines 217-222
Duplicates(heading_normalized, title_normalized, type) ==
    \/ heading_normalized = title_normalized
    \/ StartsWith(title_normalized, heading_normalized)
    \/ StartsWith(heading_normalized, title_normalized)
    \/ Contains(heading_normalized, type)

\* lines 223-224
DropFirstLine(text) ==
    LET first_line_end == Find(text, <<NL>>, 0)
    IN  IF first_line_end # -1
        THEN Strip(SubSeq(text, first_line_end + 2, Len(text)))
        ELSE <<>>

\* lines 212-224
DropDuplicateHeading(text, title, type) ==
    IF /\ H1Matches(text)
       /\ Duplicates(Strip(Lower(Strip(H1Group(text)))), Strip(Lower(title)), type)
    THEN DropFirstLine(text)
    ELSE text

\* the place of position i of text in the run of newlines it ends: 0 if
\* text[i] is no newline
NewlineRun(text, i) ==
    IF text[i] # NL THEN 0
    ELSE i - Greatest({0} \cup {j \in 1..i : text[j] # NL})

\* line 227: re.sub(r"\n{4,}", "\n\n\n", text): of a run of four newlines
\* or more the first three are kept
CollapseNewlines(text) ==
    LET marked == [i \in 1..Len(text) |-> <<text[i], NewlineRun(text, i) <= 3>>]
        kept == SelectSeq(marked, LAMBDA m : m[2])
    IN  [k \in 1..Len(kept) |-> kept[k][1]]

\* line.rstrip()
RStrip(line) == SubSeq(line, 1, SkipWhitespaceBack(line, Len(line)))

\* line 230: "\n".join(line.rstrip() for line in text.split("\n"))
RStripLines(text) ==
    LET lines == Lines(text)
    IN  Join([i \in 1..Len(lines) |-> RStrip(lines[i])], <<NL>>)

\* lines 191-232
_clean_output(text, title, type) ==
    IF text = <<>> THEN text
    ELSE LET trimmed == Strip(text)
             body_text == Strip(StripFrontmatter(trimmed))
             headed == DropDuplicateHeading(body_text, title, type)
         IN  Strip(RStripLines(CollapseNewlines(headed)))

\* what the raw texts are put together from
CleanPieces ==
    { Dashes, <<NL>>, <<SP>>, <<HASH, SP>>, <<HASH>>, <<"a">>, <<"q", "a">> }

MaxCleanPieces == 5

RECURSIVE CleanTexts(_)
CleanTexts(n) ==
    IF n = 0 THEN {<<>>}
    ELSE LET shorter == CleanTexts(n - 1)
         IN  shorter \cup {t \o piece : t \in shorter, piece \in CleanPieces}

\* texts with a block between lines of dashes: what stands before it, its
\* opening line, its body, its closing line, and what follows
BlockTexts ==
    { before \o opening \o inside \o closing \o after :
        before \in { <<>>, <<SP, NL>>, <<"a", NL>> },
        opening \in { Dashes \o <<NL>>, Dashes \o <<SP, NL>>, Dashes \o <<"a", NL>> },
        inside \in { <<"a">>, <<>>, <<"a", NL>> \o Dashes \o <<"a">> },
        closing \in { <<NL>> \o Dashes \o <<NL>>, <<NL>> \o Dashes,
                      <<NL>> \o Dashes \o <<"a", NL>> },
        after \in { <<>>, <<"a">>, <<HASH, SP, "a", NL, "a">>,
                    Dashes \o <<NL, "a", NL>> \o Dashes \o <<NL, "a">> } }

\* the lines of the texts given line by line: a word, nothing, a space, and a
\* word with a space after it
CleanLines == { <<"a">>, <<>>, <<SP>>, <<"a", SP>> }

MaxCleanLines == 5

LineTexts ==
    UNION { { Join(lines, <<NL>>) : lines \in [1..n -> CleanLines] } :
            n \in 1..MaxCleanLines }

\* the titles: of one word, of two, in capitals, and none
CleanTitles == { <<"a">>, <<"A", SP, "b">>, <<"b">>, <<>> }

InitClean ==
    /\ ChunkIdle
    /\ GenIdle
    /\ FitIdle
    /\ ChainIdle
    /\ RunIdle
    /\ NoteIdle
    /\ MergeIdle
    /\ ParseIdle
    /\ ProviderIdle
    /\ raw_text \in CleanTexts(MaxCleanPieces) \cup BlockTexts \cup LineTexts
    /\ expected_title \in CleanTitles
    /\ note_type = <<"q", "a">>
    /\ clean_state = "input"
    /\ cleaned = <<>>

\* self._clean_output(body, name)
CallClean ==
    /\ clean_state = "input"
    /\ cleaned' = _clean_output(raw_text, expected_title, note_type)
    /\ clean_state' = "returned"
    /\ UNCHANGED <<raw_text, expected_title, note_type>>
    /\ UNCHANGED outsideClean

NextClean == CallClean

SpecClean == InitClean /\ [][NextClean]_vars

-----------------------------------------------------------------------------
(* Properties of the sanitizer *)

CleanReturned == clean_state = "returned"

\* C21: Sanitizer idempotence: cleaning a cleaned text, for the same title,
\* gives it back unchanged: clean(clean(x, t), t) = clean(x, t).
C21_Idempotent ==
    CleanReturned => _clean_output(cleaned, expected_title, note_type) = cleaned

\* the text the heading step is given: lines 197-207
HeadingStepInput(text) == Strip(StripFrontmatter(Strip(text)))

\* the first line of a text, without its newline
FirstLine(text) ==
    LET nl == Find(text, <<NL>>, 0)
    IN  SubSeq(text, 1, IF nl = -1 THEN Len(text) ELSE nl)

\* what a heading line says after its marker
HeadingText(line) == Strip(SubSeq(line, 2, Len(line)))

\* a line that is a top-level heading: one marker, a space, and a text
TopHeading(line) ==
    /\ Len(line) >= 2
    /\ line[1] = HASH
    /\ line[2] = SP
    /\ HeadingText(line) # <<>>

\* C22: Duplicate-heading removal: the heading step drops the first line
\* exactly when that line is a top-level heading (one marker) whose lowered
\* and trimmed text equals the expected title, is a prefix of it, has it as a
\* prefix, or contains the style name; otherwise it leaves the text as it is,
\* and it never removes any other line.
C22_DuplicateHeading ==
    CleanReturned =>
        LET body_text == HeadingStepInput(raw_text)
            line == FirstLine(body_text)
        IN  DropDuplicateHeading(body_text, expected_title, note_type)
              = IF /\ TopHeading(line)
                   /\ Duplicates(Lower(HeadingText(line)),
                                 Strip(Lower(expected_title)), note_type)
                THEN DropFirstLine(body_text)
                ELSE body_text

\* the number of blank lines a sequence of lines has at its start
RECURSIVE BlankRun(_)
BlankRun(lines) ==
    IF lines # <<>> /\ Strip(Head(lines)) = <<>> THEN 1 + BlankRun(Tail(lines)) ELSE 0

\* no line ends in whitespace
NoTrailingWhitespace(text) ==
    \A i \in 1..Len(Lines(text)) : RStrip(Lines(text)[i]) = Lines(text)[i]

\* never three blank lines one after the other
NoThreeBlankLines(text) ==
    LET lines == Lines(text)
    IN  \A i \in 1..Len(lines) : BlankRun(SubSeq(lines, i, Len(lines))) <= 2

\* C23: Blank-line collapse: the returned text never has three or more blank
\* lines one after the other, and none of its lines ends in whitespace.
C23_BlankLineCollapse ==
    CleanReturned => NoThreeBlankLines(cleaned) /\ NoTrailingWhitespace(cleaned)

\* the part of C23 the code keeps: no line of the returned text ends in
\* whitespace
C23_NoTrailingWhitespace ==
    CleanReturned => NoTrailingWhitespace(cleaned)

\* a line of three dashes
DashLine(line) == RStrip(line) = Dashes

\* the closing lines of a block that opens on the first line: the lines of
\* three dashes that stand after a body of at least one line
ClosingLines(lines) == {k \in 3..Len(lines) : DashLine(lines[k])}

\* the text begins with a line of three dashes, a body, and another line of
\* three dashes
HasLeadingBlock(text) ==
    LET lines == Lines(text)
    IN  lines # <<>> /\ DashLine(lines[1]) /\ ClosingLines(lines) # {}

\* the text that follows the leading block
AfterLeadingBlock(text) ==
    LET lines == Lines(text)
        k == Least(ClosingLines(lines))
    IN  Join(SubSeq(lines, k + 1, Len(lines)), <<NL>>)

\* C24: Leading metadata block: when the trimmed text begins with a line of
\* three dashes, a body, and another line of three dashes, the frontmatter
\* step removes that block and what follows it is all that is left; when
\* the trimmed text does not begin with a line of three dashes, the step
\* leaves it unchanged, so a block further down is never removed.
C24_LeadingBlock ==
    CleanReturned =>
        LET trimmed == Strip(raw_text)
        IN  /\ HasLeadingBlock(trimmed)
                => HeadingStepInput(raw_text) = Strip(AfterLeadingBlock(trimmed))
            /\ (trimmed # <<>> /\ ~DashLine(Lines(trimmed)[1]))
                => StripFrontmatter(trimmed) = trimmed

\* the part of C24 the code keeps: a text that does not begin with a line of
\* three dashes is left unchanged by the step
C24_OnlyAtStart ==
    CleanReturned =>
        LET trimmed == Strip(raw_text)
        IN  (trimmed # <<>> /\ ~DashLine(Lines(trimmed)[1]))
                => StripFrontmatter(trimmed) = trimmed

-----------------------------------------------------------------------------
(* Properties of the controller *)

\* the path the budget decides for the document
DecidedPath ==
    IF estimate_tokens(content) > max_input_tokens - Reserve
    THEN "chunked"
    ELSE "direct"

\* C25: Controller state selection: generate decides once, before any
\* generation call, and by the budget alone: the chunked path when the
\* estimate of the content is over the input budget less the reserve, the
\* direct path otherwise. The decision is never taken again and never
\* changed, the calls made stay made, and the steps of the other path are
\* never taken.
C25_OneDecision ==
    [][ /\ pc = "generate" => (calls = <<>> /\ path = "none")
        /\ (pc = "generate" /\ pc' # "generate") =>
              (path' = DecidedPath /\ calls' = <<>>)
        /\ pc # "generate" =>
              /\ pc' # "generate"
              /\ path' = path
              /\ path = DecidedPath
              /\ Len(calls') >= Len(calls)
              /\ SubSeq(calls', 1, Len(calls)) = calls
              /\ path = "direct" =>
                    (pc' \in {"direct", "returned"} /\ chunks' = <<>> /\ rounds' = <<>>)
              /\ path = "chunked" => pc' # "direct" ]_vars

\* a document one token over the budget has gone the chunked path to its
\* end, with more than one call made
C25_Witness ==
    /\ pc = "returned"
    /\ path = "chunked"
    /\ estimate_tokens(content) = max_input_tokens - Reserve + 1
    /\ Len(calls) >= 2

-----------------------------------------------------------------------------
(* Properties of the chained styles on the chunked path *)

\* the position in calls of the first call of pass i
PassFirst(i) == IF i = 1 THEN 1 ELSE passes[i - 1].last + 1

\* pass i is a whole pass over chunk i of cs and over nothing else: its plan
\* call is made on the chunk, the plan it keeps is the answer of that call,
\* and what follows is either the one fallback call on the chunk, the plan
\* having no items, or one expand call per item of that plan, each on the
\* chunk fitted beside that plan
OwnPass(i, cs) ==
    LET p == passes[i]
        k == PassFirst(i)
        n == Len(p.items)
    IN  /\ p.input = cs[i]
        /\ calls[k].fn = "plan"
        /\ calls[k].arg = cs[i]
        /\ p.plan = calls[k].out
        /\ IF n = 0
           THEN /\ p.last = k + 1
                /\ calls[k + 1].fn = "fallback"
                /\ calls[k + 1].arg = cs[i]
                /\ p.result = calls[k + 1].out
           ELSE /\ p.last = k + n
                /\ p.fitted = FittedFor(k)
                /\ \A j \in 1..n :
                      /\ calls[k + j].fn = "expand"
                      /\ calls[k + j].arg.content = p.fitted
                      /\ calls[k + j].arg.name = ItemName(p.items[j])
                      /\ calls[k + j].arg.plan =
                            IF style = "deep_dive" THEN p.plan ELSE <<>>
                /\ p.result = Join([j \in 1..n |-> calls[k + j].out], <<NL, NL>>)

\* every chunk has had its pass before the first merge call, and no pass is
\* left by an error of its own
PassesBeforeMerge(cs) ==
    /\ error # "AttributeError"
    /\ Len(passes) <= Len(cs)
    /\ pc \in {"merge_all", "round", "returned"} => Len(passes) = Len(cs)
    /\ \A k \in 1..Len(calls) :
          calls[k].fn = "merge" =>
             (Len(passes) = Len(cs) /\ k > passes[Len(passes)].last)

\* C26: Chaining and chunking compose: on the chunked path of a chained
\* style every chunk gets a whole pass of its own, plan, parse, expand and
\* assemble, or the single fallback call when its plan has no items; the
\* plan of a chunk is used for that chunk alone; and the passes of all the
\* chunks have returned before the first merge call is made.
C26_PassPerChunk ==
    path = "chunked" =>
        LET cs == chunk_content(content, max_input_tokens)
        IN  /\ PassesBeforeMerge(cs)
            /\ \A i \in 1..Len(passes) : OwnPass(i, cs)

\* the same for deep dive and Q&A alone
C26_DeepDiveAndQA == style # "practice" => C26_PassPerChunk

\* two chunks have had their passes, one by the fallback and one by the
\* items of its plan, and a merge call has been made
C26_PassesMerged ==
    /\ path = "chunked"
    /\ style # "practice"
    /\ Len(passes) >= 2
    /\ \E i, j \in 1..Len(passes) : passes[i].items = <<>> /\ passes[j].items # <<>>
    /\ calls[Len(calls)].fn = "merge"

-----------------------------------------------------------------------------
(* generators/base.py: generate, lines 93-102: the body of the path taken is *)
(* cleaned and returned as the content of the note                           *)

\* self.note_type of the chained styles
StyleChars(st) ==
    IF st = "deep_dive" THEN <<"d", "e", "e", "p", "_", "d", "i", "v", "e">>
    ELSE IF st = "qa" THEN <<"q", "a">>
    ELSE <<"p", "r", "a", "c", "t", "i", "c", "e">>

\* an answer without a plan in it that cleaning changes: a heading that
\* repeats the title "a", and a line that ends in a space
HeadedReply == <<HASH, SP, "a", NL, "x", SP>>

\* the answers of the service: that one, and a plan in the form the style
\* asks for
NoteReplies(st) == { HeadedReply, IF st = "deep_dive" THEN OutlineReply ELSE TopicReply }

\* display_name or scraped.title: a title the heading repeats, and another
NoteNames == { <<"a">>, <<"b">> }

\* the input budget left past the reserve is nothing, or this: what two of
\* the shorter answers, joined, come to
MaxNoteAvailable == 4

InitNote ==
    /\ ChunkIdle
    /\ FitIdle
    /\ RunIdle
    /\ CleanIdle
    /\ style \in ChainedStyles
    /\ stage = "plan"
    /\ plan = <<>>
    /\ items = <<>>
    /\ fitted_content = <<>>
    /\ expanded_sections = <<>>
    /\ question_number = 1
    /\ error = "none"
    /\ passes = <<>>
    /\ content \in {ChainDoc(n) : n \in 0..MaxChainBlocks}
    /\ max_input_tokens \in {Reserve, Reserve + MaxNoteAvailable}
    /\ replies = NoteReplies(style)
    /\ GenStart
    /\ name \in NoteNames
    /\ note = <<>>
    /\ MergeIdle
    /\ ParseIdle
    /\ ProviderIdle

\* line 93 lost: the body goes into the note as it is
ReturnNoteRaw ==
    /\ pc = "returned"
    /\ note' = body
    /\ pc' = "done"
    /\ UNCHANGED <<content, max_input_tokens, replies, chunks, partial_results,
                   merged, ri, body, calls, rounds, path>>
    /\ UNCHANGED <<chainVars, name>>
    /\ UNCHANGED <<chunkVars, fitVars, runVars, cleanVars, mergeVars, parseVars,
                   providerVars>>

\* lines 93-102: body = self._clean_output(body, name), and the note returned
\* with content=body
ReturnNote ==
    /\ pc = "returned"
    /\ note' = _clean_output(body, name, StyleChars(style))
    /\ pc' = "done"
    /\ UNCHANGED <<content, max_input_tokens, replies, chunks, partial_results,
                   merged, ri, body, calls, rounds, path>>
    /\ UNCHANGED <<chainVars, name>>
    /\ UNCHANGED <<chunkVars, fitVars, runVars, cleanVars, mergeVars, parseVars,
                   providerVars>>

NextNote ==
    \/ Decide
    \/ PlanCall
    \/ FallbackCall
    \/ ExpandCall
    \/ Assemble
    \/ LLMRaises
    \/ EndMap
    \/ MergeAll
    \/ PairMerge
    \/ CarryForward
    \/ EndRound
    \/ ReturnNote

SpecNote == InitNote /\ [][NextNote]_vars

-----------------------------------------------------------------------------
(* Properties of the returned note *)

\* the result of pass i is what the service answered, as it answered: the
\* answer of its fallback call, or the answers of its expand calls joined
RawPass(i) ==
    LET p == passes[i]
        k == PassFirst(i)
        n == Len(p.items)
    IN  p.result = IF n = 0 THEN calls[k + 1].out
                   ELSE Join([j \in 1..n |-> calls[k + j].out], <<NL, NL>>)

\* the results of the passes, in their order
PassResults == [i \in 1..Len(passes) |-> passes[i].result]

\* the body of the path taken: the result of the one pass, or the answer of
\* the last merge call
FinalBody ==
    IF Len(passes) = 1 THEN passes[1].result ELSE calls[Len(calls)].out

\* generate has returned the note
NoteReturned == pc = "done"

\* C27: Sanitized body: the content of the note generate returns is
\* _clean_output applied once, with the name of the note, to the body of the
\* path taken, direct, chunked or fallback, after the last generation call;
\* nothing is in the note before that, and the results of the passes, over
\* chunks and over items, go into the merge as the service answered them,
\* not cleaned.
C27_SanitizedNote ==
    /\ ~NoteReturned => note = <<>>
    /\ NoteReturned =>
          /\ body = FinalBody
          /\ note = _clean_output(body, name, StyleChars(style))
          /\ ~ENABLED NextNote
    /\ \A i \in 1..Len(passes) : RawPass(i)
    /\ (path = "chunked" /\ pc # "raised") => MapResults = PassResults

\* a note was returned on the chunked path, its cleaned content other than
\* the body, after a pass by the fallback whose result cleaning would have
\* changed and a pass by the items of a plan
C27_Witness ==
    /\ NoteReturned
    /\ path = "chunked"
    /\ note # body
    /\ \E i, j \in 1..Len(passes) :
          /\ passes[i].items = <<>>
          /\ _clean_output(passes[i].result, name, StyleChars(style)) # passes[i].result
          /\ passes[j].items # <<>>

\* the same on the direct path, by the fallback
C27_DirectFallback ==
    /\ NoteReturned
    /\ path = "direct"
    /\ note # body
    /\ passes[1].items = <<>>

-----------------------------------------------------------------------------
(* chunker.py: _merge_sections called on its own, on the sections the three *)
(* splits of split_by_headings and _split_by_paragraphs hand it             *)

\* the paragraphs of the texts split at blank lines: short, long, blank, none
MergeParagraphs == { <<"a">>, <<"a", "a", "a">>, <<SP>>, <<>> }

\* the blocks of the texts split at headings: under a second-level or a
\* first-level heading, short or long, under none, and blank
MergeBlocks ==
    { H2Marker \o <<"a", NL>>, H2Marker \o <<"a", "a", "a", "a", "a", NL>>,
      H1Marker \o <<"a", NL>>, <<"a", NL>>, <<SP, NL>> }

\* bounds: the parts of a text, and the budget
MaxSections == 5
MaxMergeTokens == 2

\* the texts of 1 to MaxSections parts, the parts joined by sep
PartTexts(parts, sep) ==
    UNION { { Join(list, sep) : list \in [1..n -> parts] } : n \in 1..MaxSections }

\* re.split(r"\n\n+", text) (line 70), re.split(r"(?=^## )", ...) (line 21)
\* and re.split(r"(?=^# )", ...) (line 31) of those texts
SectionLists ==
    { SplitOn(t, ParagraphMatches(t)) : t \in PartTexts(MergeParagraphs, <<NL, NL>>) }
    \cup { SplitOn(t, HeadingMatches(t, H2Marker)) : t \in PartTexts(MergeBlocks, <<>>) }
    \cup { SplitOn(t, HeadingMatches(t, H1Marker)) : t \in PartTexts(MergeBlocks, <<>>) }

InitMerge ==
    /\ ChunkIdle
    /\ GenIdle
    /\ FitIdle
    /\ ChainIdle
    /\ RunIdle
    /\ CleanIdle
    /\ NoteIdle
    /\ ParseIdle
    /\ ProviderIdle
    /\ merge_input \in SectionLists
    /\ section_budget \in 0..MaxMergeTokens
    /\ merge_state = "input"
    /\ merge_result = <<>>

\* _merge_sections(sections, max_tokens)
CallMerge ==
    /\ merge_state = "input"
    /\ merge_result' = _merge_sections(merge_input, section_budget)
    /\ merge_state' = "returned"
    /\ UNCHANGED <<merge_input, section_budget>>
    /\ UNCHANGED outsideMerge

NextMerge == CallMerge

SpecMerge == InitMerge /\ [][NextMerge]_vars

-----------------------------------------------------------------------------
(* Properties of the merge pass *)

Merged == merge_state = "returned"

\* the sections that hold something other than whitespace, in their order
NonBlank(list) == SelectSeq(list, LAMBDA x : Strip(x) # <<>>)

\* the k-th member of a set of numbers, from the least
Kth(S, k) == CHOOSE e \in S : Cardinality({x \in S : x <= e}) = k

\* list is cut into the chunks after the positions of ends: chunk k is the
\* sections from past the end of chunk k - 1 up to its own end, run together,
\* the last chunk ends with the last section, and every chunk but the last
\* passes the budget once the section that opens the next one is added
GreedyCut(list, ends, result, budget) ==
    LET n == Len(list)
        m == Len(result)
        first(k) == IF k = 1 THEN 1 ELSE Kth(ends, k - 1) + 1
    IN  /\ Cardinality(ends) = m
        /\ (n > 0) => n \in ends
        /\ \A k \in 1..m : result[k] = Flatten(SubSeq(list, first(k), Kth(ends, k)))
        /\ \A k \in 1..(m - 1) :
              estimate_tokens(result[k] \o list[first(k + 1)]) > budget

\* C28: Greedy-merge maximality: the chunks _merge_sections returns are the
\* non-blank sections in their order, each chunk a run of consecutive
\* sections, and a chunk is closed only where the next non-blank section
\* would overflow: chunk i with the first section of chunk i + 1 added is
\* over the budget.
C28_GreedyMaximal ==
    Merged =>
        LET list == NonBlank(merge_input)
        IN  \E ends \in SUBSET (1..Len(list)) :
                GreedyCut(list, ends, merge_result, section_budget)

\* a pass returned several chunks, one of them of more sections than one,
\* from sections with a blank one among them
C28_Witness ==
    /\ Merged
    /\ Len(merge_result) >= 2
    /\ Len(NonBlank(merge_input)) > Len(merge_result)
    /\ Len(NonBlank(merge_input)) < Len(merge_input)
    /\ section_budget >= 1

\* a text that is empty or whitespace only
Blank(x) == Strip(x) = <<>>

\* C30: Blank sections are dropped before merging: the chunks are those the
\* sections that are not blank give by themselves, so a blank section opens
\* no chunk, closes none and is in none; what the chunks hold is those
\* sections run together, and no chunk is empty or whitespace only.
C30_BlankDropped ==
    Merged =>
        /\ merge_result = _merge_sections(NonBlank(merge_input), section_budget)
        /\ Flatten(merge_result) = Flatten(NonBlank(merge_input))
        /\ \A k \in 1..Len(merge_result) : ~Blank(merge_result[k])

\* a blank section stood first and another between the sections that are
\* not blank, three of them, which went into two chunks
C30_Witness ==
    /\ Merged
    /\ Len(merge_input) >= 5
    /\ Blank(merge_input[1])
    /\ merge_input[1] # <<>>
    /\ \E i \in 2..(Len(merge_input) - 1) : Blank(merge_input[i])
    /\ Len(NonBlank(merge_input)) = 3
    /\ Len(merge_result) = 2

\* the same of split_by_headings: no chunk the splitting steps return is
\* empty or whitespace only
C30_NoBlankChunk ==
    (Returned /\ estimate_tokens(markdown) > max_tokens) =>
        \A k \in 1..Len(split_result) : ~Blank(split_result[k])

-----------------------------------------------------------------------------
(* Properties of the cascade of split_by_headings *)

\* the text is over the budget: the splitting steps run
Splitting == Returned /\ estimate_tokens(markdown) > max_tokens

OverBudget(chunk) == estimate_tokens(chunk) > max_tokens

\* the chunks of the second-level-heading pass
H2Pass == _merge_sections(SplitOn(markdown, HeadingMatches(markdown, H2Marker)), max_tokens)

\* the chunks of the first-level-heading pass over one chunk
H1Pass(chunk) ==
    _merge_sections(SplitOn(chunk, HeadingMatches(chunk, H1Marker)), max_tokens)

\* what becomes of a chunk of the first-level pass: itself if it is within
\* the budget, its paragraphs merged if not
AfterH1(chunk) ==
    IF OverBudget(chunk) THEN _split_by_paragraphs(chunk, max_tokens) ELSE <<chunk>>

\* what becomes of a chunk of the second-level pass: itself if it is within
\* the budget; if not, the chunks of its first-level pass, each as above
AfterH2(chunk) ==
    IF OverBudget(chunk)
    THEN Flatten([j \in 1..Len(H1Pass(chunk)) |-> AfterH1(H1Pass(chunk)[j])])
    ELSE <<chunk>>

\* no line of the text begins with a heading marker
NoHeadings(text) ==
    HeadingMatches(text, H2Marker) = {} /\ HeadingMatches(text, H1Marker) = {}

\* C29: Cascading granularity: of the chunks of the second-level-heading
\* pass only those over the budget are split again at first-level headings,
\* and of the chunks that gives only those still over the budget are split at
\* blank lines; a chunk within the budget goes through the later steps
\* unchanged, in its place; and a text without a heading marker gives what
\* the paragraph split of the whole text gives. Stated of a text over the
\* budget: a text within it is returned whole before any pass (C3).
C29_Cascade ==
    Splitting =>
        /\ split_result = Flatten([k \in 1..Len(H2Pass) |-> AfterH2(H2Pass[k])])
        /\ NoHeadings(markdown) => split_result = _split_by_paragraphs(markdown, max_tokens)

\* a chunk within the budget with a blank line in it came back as it was,
\* before a chunk over the budget that the paragraph split cut in two
C29_Witness ==
    /\ Splitting
    /\ Len(H2Pass) = 2
    /\ ~OverBudget(H2Pass[1])
    /\ HasBlankLine(H2Pass[1])
    /\ OverBudget(H2Pass[2])
    /\ Len(split_result) = 3
    /\ split_result[1] = H2Pass[1]

\* a text without headings, over the budget, came back by its paragraphs
C29_NoHeadingText ==
    /\ Splitting
    /\ NoHeadings(markdown)
    /\ Len(split_result) >= 2

-----------------------------------------------------------------------------
(* The plan parsers called on their own: deep_dive.py: _parse_outline_sections, *)
(* qa.py and practice.py: _parse_topics                                         *)

\* the lines of the plans. Of a topic plan: entries with a name, with a
\* count, with bold markers and no name, with one marker only; bullets, one
\* of them indented; a line of text and a blank line. Of an outline:
\* headings of the second level, one of them indented and one without a
\* text, and of the third level; a bullet, a line of text and a blank line
PlanLines(st) ==
    IF st = "deep_dive"
    THEN { <<HASH, HASH, SP, "a">>,
           <<SP, HASH, HASH, SP, "b">>,
           <<HASH, HASH, SP>>,
           <<HASH, HASH, HASH, SP, "c">>,
           <<SP, "-", SP, "p">>,
           <<"x">>,
           <<>> }
    ELSE { <<"1", ".", SP, "*", "*", "a", "*", "*">>,
           <<"2", ".", SP, "*", "*", "b", "*", "*", SP, "(", "3", SP>> \o Question \o <<"s", ")">>,
           <<"3", ".", SP, "*", "*", "*", "*">>,
           <<"4", ".", SP, "*", "*", "c">>,
           <<"-", SP, "p">>,
           <<SP, SP, "-", SP, "q">>,
           <<"x">>,
           <<>> }

MaxPlanLines == 4

\* the plans of 1 to MaxPlanLines lines
PlanTexts(st) ==
    UNION { { Join(lines, <<NL>>) : lines \in [1..n -> PlanLines(st)] } : n \in 1..MaxPlanLines }

InitParse ==
    /\ ChunkIdle
    /\ GenIdle
    /\ FitIdle
    /\ ChainIdle
    /\ RunIdle
    /\ CleanIdle
    /\ NoteIdle
    /\ MergeIdle
    /\ ProviderIdle
    /\ parser \in ChainedStyles
    /\ plan_text \in PlanTexts(parser)
    /\ parse_state = "input"
    /\ parse_result = <<>>

\* self._parse_outline_sections(outline), self._parse_topics(plan)
CallParse ==
    /\ parse_state = "input"
    /\ parse_result' = ParsePlan(parser, plan_text)
    /\ parse_state' = "returned"
    /\ UNCHANGED <<plan_text, parser>>
    /\ UNCHANGED outsideParse

NextParse == CallParse

SpecParse == InitParse /\ [][NextParse]_vars

-----------------------------------------------------------------------------
(* Properties of the plan parsers *)

Parsed == parse_state = "returned"

TopicsParsed == Parsed /\ parser \in {"qa", "practice"}

\* a numbered entry with a bolded name: a line that, trimmed, begins with a
\* digit and holds the bold marker
TopicEntry(line) ==
    LET stripped == Strip(line)
    IN  stripped # <<>> /\ stripped[1] \in Digits /\ Find(stripped, Stars, 0) # -1

\* a bullet line: a line that, trimmed, begins with a dash
BulletLine(line) == StartsWith(Strip(line), <<"-">>)

\* the positions, among lines, that satisfy a test, as a set
EntryPositions(lines) == {i \in 1..Len(lines) : TopicEntry(lines[i])}

\* the bullet lines, trimmed, that stand after position lo and before
\* position hi, in their order, joined by newlines
BulletsBetween(lines, lo, hi) ==
    LET at == {i \in (lo + 1)..(hi - 1) : BulletLine(lines[i])}
    IN  Join([k \in 1..Cardinality(at) |-> Strip(lines[Kth(at, k)])], <<NL>>)

\* the items are one per entry, in the order of the entries, each with the
\* bullets that stand between it and the next entry
OnePerEntry(lines, result) ==
    LET at == EntryPositions(lines)
        n == Cardinality(at)
    IN  /\ Len(result) = n
        /\ \A k \in 1..n :
              result[k].points =
                  BulletsBetween(lines, Kth(at, k),
                                 IF k = n THEN Len(lines) + 1 ELSE Kth(at, k + 1))

\* C31: Topic-plan parsing: _parse_topics of Q&A and of practice returns one
\* item for every numbered entry with a bolded name, in the order of the
\* plan; every bullet line goes to the nearest entry before it and to no
\* other, bullet lines before the first entry go nowhere, and a plan without
\* such an entry gives no item.
C31_TopicParsing ==
    TopicsParsed => OnePerEntry(Lines(plan_text), parse_result)

\* the same for the plans whose entries all have a name that is not empty
C31_NamedEntries ==
    (TopicsParsed /\ \A i \in EntryPositions(Lines(plan_text)) :
                        TopicName(Strip(Lines(plan_text)[i])) # <<>>)
        => OnePerEntry(Lines(plan_text), parse_result)

OutlineParsed == Parsed /\ parser = "deep_dive"

\* a line that begins with "## " and not with "### ", as it stands
HeadingLine(line) ==
    StartsWith(line, <<HASH, HASH, SP>>) /\ ~StartsWith(line, <<HASH, HASH, HASH, SP>>)

\* the positions of the heading lines, lines taken as they stand
HeadingPositions(lines) == {i \in 1..Len(lines) : HeadingLine(lines[i])}

\* the positions of the heading lines, lines trimmed first
TrimmedHeadingPositions(lines) == {i \in 1..Len(lines) : HeadingLine(Strip(lines[i]))}

\* the lines that are not blank and stand after position lo and before
\* position hi, as they stand, in their order, joined by newlines
PointsBetween(lines, lo, hi) ==
    LET at == {i \in (lo + 1)..(hi - 1) : Strip(lines[i]) # <<>>}
    IN  Join([k \in 1..Cardinality(at) |-> lines[Kth(at, k)]], <<NL>>)

\* the sections are one per heading line at the positions at, in their
\* order, each headed by its line and holding the lines that are not blank
\* up to the next heading line; lines before the first heading line are in
\* no section, and there is no section exactly when there is no heading line
OnePerHeading(lines, at, result) ==
    LET n == Cardinality(at)
    IN  /\ Len(result) = n
        /\ (result = <<>>) <=> (at = {})
        /\ \A k \in 1..n :
              /\ result[k].heading = Strip(lines[Kth(at, k)])
              /\ result[k].points =
                    PointsBetween(lines, Kth(at, k),
                                  IF k = n THEN Len(lines) + 1 ELSE Kth(at, k + 1))

\* C32 (as stated): Outline parsing: each line that starts with "## " and
\* not with "### " opens exactly one section, in outline order; every line
\* that is not blank, up to the next such line, is in the points of that
\* section, "### " lines included; lines before the first such line are
\* ignored; the result is empty exactly when the outline has no such line.
C32_OutlineParsing ==
    OutlineParsed => OnePerHeading(Lines(plan_text), HeadingPositions(Lines(plan_text)),
                                   parse_result)

\* C32 (amended): the same where a heading line is a line that, trimmed of
\* the whitespace around it, starts with "## " and not with "### ": an
\* indented heading opens a section, and "## " with no text after it does
\* not.
C32_TrimmedHeadings ==
    OutlineParsed => OnePerHeading(Lines(plan_text),
                                   TrimmedHeadingPositions(Lines(plan_text)),
                                   parse_result)

\* an outline parsed into two sections, the second opened by an indented
\* heading, the first holding a "### " line, after a line that is in no
\* section
C32_Witness ==
    /\ OutlineParsed
    /\ Len(parse_result) = 2
    /\ ~HeadingLine(Lines(plan_text)[1])
    /\ Strip(Lines(plan_text)[1]) # <<>>
    /\ StartsWith(parse_result[1].points, <<HASH, HASH, HASH, SP>>)
    /\ HeadingPositions(Lines(plan_text)) # TrimmedHeadingPositions(Lines(plan_text))

-----------------------------------------------------------------------------
(* Properties of the numbering of the practice questions *)

\* the pass whose plan is at position k of calls numbers its questions from
\* the plan: the counter is 1 when the pass comes to its loop, and the
\* expand call of topic j is given 1 plus the counts planned for the topics
\* before it
NumberedFromPlan(k) ==
    LET parsed == ParsePlan(style, calls[k].out)
    IN  /\ k = Len(calls) => Expanding /\ question_number = 1
        /\ \A j \in 1..Len(parsed) :
              k + j <= Len(calls) =>
                 /\ calls[k + j].fn = "expand"
                 /\ calls[k + j].arg.start = PlannedStart(parsed, j)

\* C33: Practice question numbering: the start number given to the expand
\* call of topic k is 1 plus the planned counts of topics 1..k-1, 5 for a
\* topic without a count that can be read, whatever the earlier expand
\* calls answered; the counter starts again at 1 in every pass, so for
\* every chunk on the chunked path.
C33_QuestionNumbering ==
    style = "practice" => \A k \in ItemPlans : NumberedFromPlan(k)

-----------------------------------------------------------------------------
(* llm/anthropic.py, llm/openai.py: generate                                   *)

\* for attempt in range(3)
MaxAttempts == 3

Providers == {"anthropic", "openai"}

\* what the service answers to one request: a response, a rate-limit error
\* (RateLimitError), a rejection naming an unsupported parameter
\* (BadRequestError with "unsupported_parameter"), any other APIError
Outcomes == {"ok", "rate_limit", "unsupported_parameter", "api_error"}

\* openai.py:66-70, 82-86: the name of the token parameter
TokenParam(use) == IF use THEN "max_completion_tokens" ELSE "max_tokens"

\* the request made at this point, with what the service answered
Request(param, outcome) == [attempt |-> attempt, param |-> param, outcome |-> outcome]

InitProvider ==
    /\ ChunkIdle
    /\ GenIdle
    /\ FitIdle
    /\ ChainIdle
    /\ RunIdle
    /\ CleanIdle
    /\ NoteIdle
    /\ MergeIdle
    /\ ParseIdle
    /\ provider \in Providers
    /\ use_max_completion_tokens \in (IF provider = "openai" THEN BOOLEAN ELSE {FALSE})
    /\ attempt = 0
    /\ requests = <<>>
    /\ provider_pc = "attempt"

\* return response.content[0].text, return response.choices[0].message.content or ""
ReturnText ==
    /\ provider_pc' = "returned"
    /\ UNCHANGED attempt

\* except APIError: raise LLMError
RaiseLLMError ==
    /\ provider_pc' = "raised"
    /\ UNCHANGED attempt

\* the same with one more turn of the loop
RateLimitedOnceMore ==
    /\ attempt' = attempt + 1
    /\ provider_pc' = IF attempt + 1 < MaxAttempts + 1 THEN "attempt" ELSE "raised"

\* except RateLimitError: the wait, when a turn is left, and the next turn
\* of the loop; after the last turn raise LLMError("Rate limited after 3
\* attempts")
RateLimited ==
    /\ attempt' = attempt + 1
    /\ provider_pc' = IF attempt + 1 < MaxAttempts THEN "attempt" ELSE "raised"

\* anthropic.py:55-69: one turn of the loop of AnthropicProvider.generate
CreateMessage ==
    /\ provider = "anthropic"
    /\ provider_pc = "attempt"
    /\ \E outcome \in Outcomes :
          /\ requests' = Append(requests, Request("max_tokens", outcome))
          /\ IF outcome = "ok" THEN ReturnText
             ELSE IF outcome = "rate_limit" THEN RateLimited
             ELSE RaiseLLMError
    /\ UNCHANGED <<provider, use_max_completion_tokens>>
    /\ UNCHANGED outsideProvider

\* openai.py:52-61, 64-80: one turn of the loop of OpenAIProvider.generate,
\* up to the answer to the first request of _call_api
CallApi ==
    /\ provider = "openai"
    /\ provider_pc = "attempt"
    /\ \E outcome \in Outcomes :
          /\ requests' = Append(requests,
                                Request(TokenParam(use_max_completion_tokens), outcome))
          /\ IF outcome = "unsupported_parameter"
             THEN /\ use_max_completion_tokens' = ~use_max_completion_tokens
                  /\ provider_pc' = "alternate"
                  /\ UNCHANGED attempt
             ELSE /\ UNCHANGED use_max_completion_tokens
                  /\ IF outcome = "ok" THEN ReturnText
                     ELSE IF outcome = "rate_limit" THEN RateLimited
                     ELSE RaiseLLMError
    /\ UNCHANGED provider
    /\ UNCHANGED outsideProvider

\* openai.py:81-90, 55-61: the second request of _call_api, with the other
\* parameter, and the rest of the turn of the loop
CallApiAlternate ==
    /\ provider = "openai"
    /\ provider_pc = "alternate"
    /\ \E outcome \in Outcomes :
          /\ requests' = Append(requests,
                                Request(TokenParam(use_max_completion_tokens), outcome))
          /\ IF outcome = "ok" THEN ReturnText
             ELSE IF outcome = "rate_limit" THEN RateLimited
             ELSE RaiseLLMError
    /\ UNCHANGED <<provider, use_max_completion_tokens>>
    /\ UNCHANGED outsideProvider

NextProvider ==
    \/ CreateMessage
    \/ CallApi
    \/ CallApiAlternate

SpecProvider == InitProvider /\ [][NextProvider]_vars

-----------------------------------------------------------------------------
(* Properties of the providers *)

\* the requests made in turn a of the loop, as positions in requests
RequestsOf(a) == {i \in 1..Len(requests) : requests[i].attempt = a}

\* generate has ended, by a return or by LLMError
GenerateEnded == provider_pc \in {"returned", "raised"}

\* it returns at the first response and only at a response: a response is
\* the last request made, and a return follows a response
ReturnsAtResponse ==
    /\ \A i \in 1..Len(requests) :
          requests[i].outcome = "ok" => i = Len(requests) /\ provider_pc = "returned"
    /\ provider_pc = "returned" =>
          requests # <<>> /\ requests[Len(requests)].outcome = "ok"

\* LLMError after the third turn that ended by a rate-limit error, and no
\* turn after it
RaisesWhenExhausted ==
    /\ attempt <= MaxAttempts
    /\ attempt = MaxAttempts => provider_pc = "raised"
    /\ \A a \in 0..(attempt - 1) :
          \E i \in RequestsOf(a) :
             /\ requests[i].outcome = "rate_limit"
             /\ \A j \in RequestsOf(a) : j <= i
    /\ (provider_pc = "raised" /\ attempt < MaxAttempts) =>
          requests[Len(requests)].outcome \in {"api_error", "unsupported_parameter"}

\* C34 (as stated): Provider retry budget: one call of generate makes at
\* most 3 requests; a request follows another only after a rate-limit
\* error; generate returns at the first response, raises LLMError at once,
\* with no further request, on any other API error, raises LLMError after
\* the third rate-limit error in a row, and never returns without a
\* response.
C34_RetryBudget ==
    /\ Len(requests) <= MaxAttempts
    /\ \A i \in 1..Len(requests) :
          /\ i < Len(requests) => requests[i].outcome = "rate_limit"
          /\ requests[i].outcome \in {"api_error", "unsupported_parameter"} =>
                i = Len(requests) /\ provider_pc = "raised"
    /\ ReturnsAtResponse
    /\ RaisesWhenExhausted

\* the same of the Anthropic provider alone
C34_Anthropic == provider = "anthropic" => C34_RetryBudget

\* C34 (amended): one call of generate makes at most 3 attempts. An attempt
\* is one request; in the OpenAI provider it is two when the first was
\* rejected for an unsupported parameter, the second with the other token
\* parameter, so at most 6 requests. A new attempt follows only a
\* rate-limit error; generate returns at the first response, raises
\* LLMError at once on any other API error, but for that rejection of the
\* first request of an OpenAI attempt, raises LLMError after the third
\* attempt that ended by a rate-limit error, and never returns without a
\* response.
C34_AttemptBudget ==
    /\ \A i \in 1..Len(requests) :
          /\ requests[i].attempt < MaxAttempts
          /\ i < Len(requests) =>
                \/ /\ requests[i].outcome = "rate_limit"
                   /\ requests[i + 1].attempt = requests[i].attempt + 1
                \/ /\ requests[i].outcome = "unsupported_parameter"
                   /\ provider = "openai"
                   /\ requests[i + 1].attempt = requests[i].attempt
                   /\ requests[i + 1].param # requests[i].param
                   /\ \A j \in RequestsOf(requests[i].attempt) : i <= j
          /\ requests[i].outcome = "api_error" =>
                i = Len(requests) /\ provider_pc = "raised"
          /\ (requests[i].outcome = "unsupported_parameter" /\ i = Len(requests)) =>
                provider_pc \in {"raised", "alternate"}
    /\ \A a \in 0..MaxAttempts :
          Cardinality(RequestsOf(a)) <= IF provider = "openai" THEN 2 ELSE 1
    /\ ReturnsAtResponse
    /\ RaisesWhenExhausted

\* the OpenAI provider raised LLMError after three attempts that ended by a
\* rate-limit error, having made more than three requests
C34_Witness ==
    /\ provider = "openai"
    /\ provider_pc = "raised"
    /\ attempt = MaxAttempts
    /\ Len(requests) > MaxAttempts

-----------------------------------------------------------------------------
(* Properties of the merge calls of a reduction *)

\* a reduction of two or more partial results has returned
Reduced == Mapped /\ pc = "returned" /\ Len(MapResults) >= 2

\* the chunks whose partial results an entry of a round is made of, as the
\* first and the last of them: one chunk for an entry of the first round,
\* and for an entry of a later round those of the pair it was merged from,
\* or of the entry carried forward
RECURSIVE Span(_, _)
Span(r, k) ==
    IF r = 1 THEN [lo |-> k, hi |-> k]
    ELSE [lo |-> Span(r - 1, 2 * k - 1).lo,
          hi |-> IF 2 * k <= Len(rounds[r - 1]) THEN Span(r - 1, 2 * k).hi
                 ELSE Span(r - 1, 2 * k - 1).hi]

\* the pairs merged in the rounds, as round and place in the round
MergedPairs ==
    {rk \in (1..Len(rounds)) \X (1..Len(MapResults)) :
        rk[1] < Len(rounds) /\ 2 * rk[2] <= Len(rounds[rk[1]])}

\* partial result i, as the map phase left it, is the left or the right
\* entry of a merged pair
TakesPart(i) ==
    \E rk \in MergedPairs :
        \E side \in {2 * rk[2] - 1, 2 * rk[2]} :
            /\ Span(rk[1], side) = [lo |-> i, hi |-> i]
            /\ rounds[rk[1]][side] = MapResults[i]

\* the partial results are the answers for the chunks in the order of the
\* chunks, every merged pair joins what comes of neighbouring chunks, the
\* earlier ones on the left, and the final result comes of all the chunks
InChunkOrder ==
    /\ \A i \in 1..Len(MapResults) : MapResults[i] = calls[i].out /\ calls[i].arg = chunks[i]
    /\ Hierarchical =>
          /\ \A rk \in MergedPairs :
                Span(rk[1], 2 * rk[2] - 1).hi + 1 = Span(rk[1], 2 * rk[2]).lo
          /\ Span(Len(rounds), 1) = [lo |-> 1, hi |-> Len(MapResults)]

\* C35: Merge-call count: a reduction of n >= 2 partial results that has
\* returned made exactly 1 merge call when their concatenation fits the
\* budget and exactly n - 1 when it went by rounds of pairs; every partial
\* result of the map phase was handed to at least one merge call, and the
\* final result is made of them in the order of the chunks.
C35_MergeCallCount ==
    Reduced =>
        LET n == Len(MapResults)
            M == CallsOf("merge")
        IN  /\ CombinedFits(MapResults, max_input_tokens) <=> ~Hierarchical
            /\ IF Hierarchical
               THEN /\ Len(M) = n - 1
                    /\ PairwiseRounds
                    /\ \A i \in 1..n : TakesPart(i)
               ELSE /\ Len(M) = 1
                    /\ M[1].arg = Join(MapResults, Separator)
                    /\ body = M[1].out
            /\ InChunkOrder

\* three partial results were reduced by two merge calls, the last of them
\* on the answer of the first and the third partial result, which differ
C35_Witness ==
    /\ Reduced
    /\ Hierarchical
    /\ Len(MapResults) = 3
    /\ Len(CallsOf("merge")) = 2
    /\ MapResults[3] # CallsOf("merge")[1].out

\* the merge calls made so far, as positions in calls
MergeCalls == {k \in 1..Len(calls) : calls[k].fn = "merge"}

\* C36: Every merge call of _reduce_results, the one over all the partial
\* results or one over a pair in any round, is handed a joined text whose
\* estimate is within the input budget, max_input_tokens - 10000.
C36_MergeInputWithinBudget ==
    \A k \in MergeCalls :
        estimate_tokens(calls[k].arg) <= Available(max_input_tokens)

\* the same of the one merge call over all the partial results
C36_AllAtOnce ==
    ~Hierarchical => C36_MergeInputWithinBudget

\* C37: On the chunked path chunk_content returns at least one chunk, so
\* the map phase makes at least one generation call, and a merge call is
\* made only over two or more partial results, never over none.
C37_AtLeastOneChunk ==
    (path = "chunked" /\ pc # "generate") =>
        /\ Len(chunks) >= 1
        /\ Mapped => Len(CallsOf("body")) >= 1
        /\ (MergeCalls # {} \/ pc = "merge_all") => Len(MapResults) >= 2

\* the same of the documents that are not blank
C37_NotBlank ==
    ~IsBlank(content) => C37_AtLeastOneChunk

-----------------------------------------------------------------------------
(* Properties of the outcome of a run *)

\* the calls of run_all_generators that returned a bundle; write_bundle
\* (cli.py:151) is reached by them alone
BundlesReturned == {i \in 1..Len(run_calls) : run_calls[i].returned}

\* the urls whose scrape failed
FailedScrapes == {i \in 1..Len(urls) : urls[i] = <<"CrawlError">>}

\* some url failed, or some bundle holds the error of a style
SomeFailure ==
    \/ FailedScrapes # {}
    \/ \E i \in 1..Len(run_calls) :
          ~run_calls[i].returned \/ run_calls[i].errors # <<>>

\* C38: Run outcome over a list of urls: a scrape, generation or write
\* failure for one url never stops the processing of the urls after it;
\* once all are processed the exit status is 2 iff no bundle was written, 1
\* iff a bundle was written and some url failed or some bundle holds a
\* style error, and 0 iff every bundle was written with no error.
C38_RunOutcome ==
    main_pc = "exited" =>
        /\ url_pos = Len(urls)
        /\ Len(run_calls) = Len(urls) - Cardinality(FailedScrapes)
        /\ exit_status = 2 <=> BundlesReturned = {}
        /\ exit_status = 1 <=> (BundlesReturned # {} /\ SomeFailure)
        /\ exit_status = 0 <=> (BundlesReturned # {} /\ ~SomeFailure)

\* the same of the runs in which every scrape fails
C38_ScrapeFailures ==
    FailedScrapes = 1..Len(urls) => C38_RunOutcome

====
